---- MODULE Spec2Model ----
(***************************************************************************)
(* Model of the spaced-repetition manager (src/src/sr-manager.ts) and of   *)
(* the parts of the plugin (src/main.ts, src/src/settings.ts) that drive   *)
(* it.                                                                     *)
(*                                                                         *)
(* Units.  Time stamps are counted in ticks of MsPerTick = 36000 ms, the   *)
(* greatest common divisor of 15 minutes (900000 ms) and of a hundredth of *)
(* a day (864000 ms), so that every date the code computes is a whole      *)
(* number of ticks.  Intervals are counted in 1/10000 of a day, so that    *)
(* 0.0104 is 104 and 1 is 10000.  Ease factors are counted in hundredths.  *)
(* A calendar day string (Date.toDateString) is the number of the day;     *)
(* the empty string is EmptyDate.  An absent lastReviewDate is NoDate.     *)
(***************************************************************************)
EXTENDS Integers, Sequences, FiniteSets, TLC

VARIABLES
    reviewItems,            \* Map<string, ReviewItem>, in insertion order
    lastResetDate,          \* day key of the last reset of the counter
    newCardsReviewedToday,  \* new items rated since the last reset
    newCardsPerDay,         \* plugin.settings.newCardsPerDay
    now,                    \* Date.now(), in ticks
    disk,                   \* content of the data file
    phase,                  \* "constructed" before loadData, then "running"
    readDay,                \* history: the day of the latest read of the
                            \* daily counter that no rating followed
    nRatings,               \* ratings applied so far (bounds the model)
    failuresLeft,           \* writes that may still fail (bounds the model)
    outcome,                \* history: what the latest call returned or threw
    currentFilters,         \* the view's filter chain
    reviewQueue,            \* the view's queue of items to review
    frontmatter,            \* metadataCache: what the vault resolves for a path
    currentState,           \* the view's screen: filter, question, answer, empty
    currentReviewIndex,     \* the view's position in reviewQueue, from 0
    pending                 \* asynchronous calls waiting for their await

vars == <<reviewItems, lastResetDate, newCardsReviewedToday, newCardsPerDay,
          now, disk, phase, readDay, nRatings, failuresLeft, outcome,
          currentFilters, reviewQueue, frontmatter, currentState,
          currentReviewIndex, pending>>

\* the review session of the view and the calls in flight
sessionVars == <<currentState, currentReviewIndex, pending>>

\* the state of the review view and of the vault's metadata
viewVars == <<currentFilters, reviewQueue, frontmatter, currentState,
              currentReviewIndex, pending>>

(***************************************************************************)
(* Bounds of the model.                                                    *)
(***************************************************************************)
MaxDays == 1
MaxRatings == 2
MaxLimit == 2
MaxFailures == 1
MaxReviews == 9
MaxRepetitions == 3
EaseMargin == 20
MaxChain == 2
MaxFilters == 2
MaxPast == 1
MaxPending == 2
MaxAgain == 1
MaxSessions == 2

(***************************************************************************)
(* Units and constants of the program.                                     *)
(***************************************************************************)
MsPerTick == 36 * 1000
MsPerDay == 24 * 60 * 60 * 1000
TicksPerDay == MsPerDay \div MsPerTick
FifteenMinutes == (15 * 60 * 1000) \div MsPerTick
IntervalScale == 100 * 100
InitialInterval == 1 * IntervalScale
InitialEaseFactor == 250
MinEaseFactor == 130
DefaultNewCardsPerDay == 20
AgainInterval == 104
MinInterval == 1 * IntervalScale
MaxInterval == 365 * IntervalScale
Unlimited == 0 - 1
EmptyDate == 0 - 1
NoDate == 0 - 1
NoDay == 0 - 2
NoCall == "none"

Paths == {"a.md", "b.md"}
Ratings == {"again", "hard", "good", "easy"}

\* settings.ts: the values the settings tab accepts (1..1000, cut at
\* MaxLimit) and the value -1 a settings file can hold
Limits == {Unlimited} \cup (1..MaxLimit)

\* new Date().toDateString()
Today == now \div TicksPerDay

(***************************************************************************)
(* Map<string, ReviewItem>: a sequence of items with distinct keys, in     *)
(* insertion order.  The key of an item is its path, except for an item    *)
(* whose path the rename handler rewrote in place: that one carries the    *)
(* key it was inserted under in a field of its own.                        *)
(***************************************************************************)
Key(item) == IF "key" \in DOMAIN item THEN item.key ELSE item.path

MapHas(m, p) == \E i \in 1..Len(m) : Key(m[i]) = p

MapIndex(m, p) == CHOOSE i \in 1..Len(m) : Key(m[i]) = p

MapGet(m, p) == m[MapIndex(m, p)]

MapSet(m, p, item) ==
    IF MapHas(m, p)
    THEN [m EXCEPT ![MapIndex(m, p)] = item]
    ELSE Append(m, item)

\* mutant: nothing is deleted
MapDeleteKeeps(m, p) == m

MapDelete(m, p) == SelectSeq(m, LAMBDA it : Key(it) # p)

MapKeys(m) == {Key(m[i]) : i \in 1..Len(m)}

(***************************************************************************)
(* The daily counter.                                                      *)
(***************************************************************************)
DailyData(date, count) == [lastResetDate |-> date, newCardsReviewedToday |-> count]

initializeDailyData(today) == DailyData(today, 0)

\* mutant: the day is updated, the counter is kept
checkDailyResetKeepsCount(date, count, today) ==
    IF date # today THEN DailyData(today, count) ELSE DailyData(date, count)

\* mutant: the counter is reset on every check
checkDailyResetAlways(date, count, today) == DailyData(today, 0)

checkDailyReset(date, count, today) ==
    IF date # today THEN DailyData(today, 0) ELSE DailyData(date, count)

(***************************************************************************)
(* calculateSM2.  quality is 0, 2, 3 or 5; easeFactor is in hundredths,    *)
(* interval in 1/10000 day.  The product of the interval and of the        *)
(* modifier is kept exact: Scaled(x, m) is x * m / 10, x in 1/1000000 day, *)
(* as hi (1/10000 day) and lo (the rest, in 1/10000000 day).               *)
(***************************************************************************)
Scaled(x, m) ==
    [hi |-> (x \div 1000) * m + ((x % 1000) * m) \div 1000,
     lo |-> ((x % 1000) * m) % 1000]

\* Math.round(v * 100) / 100 of the exact value v, back in 1/10000 day
Round2(v) == ((v.hi + 50) \div 100) * 100

\* mutant: the rating resets the item only below quality 2
IsLapseBelowTwo(quality) == quality < 2

\* the test of the early return
IsLapse(quality) == quality < 3

\* mutant: every rating that is not perfect takes a tenth off
EaseDeltaFlat(quality) == IF quality = 5 THEN 10 ELSE 0 - 10

\* easeFactor + (0.1 - (5 - quality) * (0.08 + (5 - quality) * 0.02))
EaseDelta(quality) == 10 - (5 - quality) * (8 + (5 - quality) * 2)

\* mutant: no floor
FloorEaseNone(e) == e

\* mutant: the floor is 1.0
FloorEaseAtOne(e) == IF e < 100 THEN 100 ELSE e

\* if (newEaseFactor < 1.3) newEaseFactor = 1.3
FloorEase(e) == IF e < MinEaseFactor THEN MinEaseFactor ELSE e

\* mutant: every successful rating is boosted
QualityModifierBoostsAll(quality) == 13

QualityModifier(quality) ==
    IF quality = 5 THEN 13 ELSE IF quality = 2 THEN 6 ELSE 10

\* mutant: no clamp
ClampIntervalNone(v) == v

ClampInterval(v) ==
    IF v.hi < MinInterval
    THEN [hi |-> MinInterval, lo |-> 0]
    ELSE IF v.hi > MaxInterval \/ (v.hi = MaxInterval /\ v.lo > 0)
         THEN [hi |-> MaxInterval, lo |-> 0]
         ELSE v

calculateSM2(quality, repetitions, easeFactor, interval) ==
    IF IsLapse(quality)
    THEN [interval |-> 1 * IntervalScale, repetitions |-> 0,
          easeFactor |-> easeFactor]
    ELSE LET newEaseFactor == FloorEase(easeFactor + EaseDelta(quality))
             newRepetitions == repetitions + 1
             newInterval ==
                 IF newRepetitions = 1 THEN 1 * 100 * IntervalScale
                 ELSE IF newRepetitions = 2 THEN 6 * 100 * IntervalScale
                 ELSE interval * newEaseFactor
             modified == Scaled(newInterval, QualityModifier(quality))
         IN  [interval |-> Round2(ClampInterval(modified)),
              repetitions |-> newRepetitions,
              \* newEaseFactor is a whole number of hundredths, which
              \* Math.round(newEaseFactor * 100) / 100 leaves as it is
              easeFactor |-> newEaseFactor]

qualityMap(rating) ==
    CASE rating = "again" -> 0
      [] rating = "hard" -> 2
      [] rating = "good" -> 3
      [] rating = "easy" -> 5

(***************************************************************************)
(* getDueNotes: the scan of the map, then Array.prototype.sort (stable)    *)
(* with the comparator of the code.                                        *)
(***************************************************************************)
\* mutant: no tie-break on nextReviewDate
CompareDueIntervalOnly(a, b) == a.interval - b.interval

\* the comparator is negative or zero: a stays before b
CompareDue(a, b) ==
    IF a.interval # b.interval
    THEN a.interval - b.interval
    ELSE a.nextReviewDate - b.nextReviewDate

RECURSIVE InsertSorted(_, _)
InsertSorted(sorted, item) ==
    IF sorted = <<>> THEN <<item>>
    ELSE IF CompareDue(sorted[Len(sorted)], item) <= 0
         THEN Append(sorted, item)
         ELSE Append(InsertSorted(SubSeq(sorted, 1, Len(sorted) - 1), item),
                     sorted[Len(sorted)])

RECURSIVE SortDue(_)
SortDue(items) ==
    IF items = <<>> THEN <<>>
    ELSE InsertSorted(SortDue(SubSeq(items, 1, Len(items) - 1)),
                      items[Len(items)])

\* mutant: the cap is tested against the counter alone
AdmitsNewSnapshot(reviewed, newCardsInQueue, maxNewPerDay) ==
    maxNewPerDay = Unlimited \/ reviewed < maxNewPerDay

\* mutant: one new item too many
AdmitsNewInclusive(reviewed, newCardsInQueue, maxNewPerDay) ==
    maxNewPerDay = Unlimited \/ reviewed + newCardsInQueue <= maxNewPerDay

\* the test that admits a new item
AdmitsNew(reviewed, newCardsInQueue, maxNewPerDay) ==
    maxNewPerDay = Unlimited \/ reviewed + newCardsInQueue < maxNewPerDay

\* mutant: an item scheduled for this very instant is not due yet
IsDueStrict(item, time) == item.nextReviewDate < time

\* the test that admits an item that is not new
IsDue(item, time) == item.nextReviewDate <= time

RECURSIVE ScanDue(_, _, _, _, _, _, _)
ScanDue(items, i, dueItems, newCardsInQueue, reviewed, maxNewPerDay, time) ==
    IF i > Len(items) THEN dueItems
    ELSE LET item == items[i]
         IN  IF item.isNew
             THEN IF AdmitsNew(reviewed, newCardsInQueue, maxNewPerDay)
                  THEN ScanDue(items, i + 1, Append(dueItems, item),
                               newCardsInQueue + 1, reviewed, maxNewPerDay, time)
                  ELSE ScanDue(items, i + 1, dueItems, newCardsInQueue,
                               reviewed, maxNewPerDay, time)
             ELSE IF IsDue(item, time)
                  THEN ScanDue(items, i + 1, Append(dueItems, item),
                               newCardsInQueue, reviewed, maxNewPerDay, time)
                  ELSE ScanDue(items, i + 1, dueItems, newCardsInQueue,
                               reviewed, maxNewPerDay, time)

\* the value getDueNotes returns, reviewed being the counter after the reset
getDueNotes(items, reviewed, maxNewPerDay, time) ==
    SortDue(ScanDue(items, 1, <<>>, 0, reviewed, maxNewPerDay, time))

(***************************************************************************)
(* The data file: JSON.stringify drops an undefined lastReviewDate, and    *)
(* loadData reads a missing field as undefined.                            *)
(***************************************************************************)
ItemToJson(item) ==
    IF item.lastReviewDate = NoDate
    THEN [path |-> item.path, interval |-> item.interval,
          easeFactor |-> item.easeFactor, repetitions |-> item.repetitions,
          nextReviewDate |-> item.nextReviewDate, isNew |-> item.isNew]
    ELSE [path |-> item.path, interval |-> item.interval,
          easeFactor |-> item.easeFactor, repetitions |-> item.repetitions,
          nextReviewDate |-> item.nextReviewDate,
          lastReviewDate |-> item.lastReviewDate, isNew |-> item.isNew]

\* mutant: lastReviewDate is not read back
ItemFromJsonWithoutDate(j) ==
    [path |-> j.path, interval |-> j.interval, easeFactor |-> j.easeFactor,
     repetitions |-> j.repetitions, nextReviewDate |-> j.nextReviewDate,
     lastReviewDate |-> NoDate, isNew |-> j.isNew]

ItemFromJson(j) ==
    [path |-> j.path, interval |-> j.interval, easeFactor |-> j.easeFactor,
     repetitions |-> j.repetitions, nextReviewDate |-> j.nextReviewDate,
     lastReviewDate |-> IF "lastReviewDate" \in DOMAIN j
                        THEN j.lastReviewDate ELSE NoDate,
     isNew |-> j.isNew]

NoFile == [kind |-> "absent"]

\* a data file that loadData cannot use: Blank has no content but white
\* space, Corrupt has a content that JSON.parse or the loop over data.items
\* rejects, Unreadable makes adapter.read fail
Blank == [kind |-> "blank"]
Corrupt == [kind |-> "corrupt"]
Unreadable == [kind |-> "unreadable"]

\* the content saveData writes
Snapshot(items, date, count) ==
    [kind |-> "data", version |-> 1,
     items |-> [i \in 1..Len(items) |-> ItemToJson(items[i])],
     lastResetDate |-> date, newCardsReviewedToday |-> count]

RECURSIVE LoadItems(_, _, _)
LoadItems(json, i, m) ==
    IF i > Len(json) THEN m
    ELSE LoadItems(json, i + 1, MapSet(m, json[i].path, ItemFromJson(json[i])))

(***************************************************************************)
(* The review view (src/unnamed/part_001) and the vault's metadata.  A     *)
(* frontmatter value is undefined, null, a string, a number, or a list of  *)
(* strings and numbers; text is what String(value) gives.  What the vault  *)
(* resolves for a path is NotAFile (getAbstractFileByPath gives no TFile), *)
(* NoFrontmatter (a file whose cache has no frontmatter), or a frontmatter *)
(* that gives a value to every property, Undefined for an absent key.      *)
(***************************************************************************)
Undefined == [kind |-> "undefined", text |-> "undefined", elements |-> <<>>]
Null == [kind |-> "null", text |-> "null", elements |-> <<>>]
Str(text) == [kind |-> "string", text |-> text, elements |-> <<>>]
Num(text) == [kind |-> "number", text |-> text, elements |-> <<>>]
List(elements) == [kind |-> "list", text |-> "", elements |-> elements]

Properties == {"tag", "status"}

NotAFile == [kind |-> "none", frontmatter |-> [property \in Properties |-> Undefined]]
NoFrontmatter == [kind |-> "file", frontmatter |-> [property \in Properties |-> Undefined]]
Frontmatter(fm) == [kind |-> "frontmatter", frontmatter |-> fm]

\* the view as its constructor leaves it, over a vault without the notes
SessionInit ==
    /\ currentState = "filter"
    /\ currentReviewIndex = 0
    /\ pending = <<>>

ViewInit ==
    /\ currentFilters = <<>>
    /\ reviewQueue = <<>>
    /\ frontmatter = [p \in Paths |-> NotAFile]
    /\ SessionInit

(***************************************************************************)
(* Initial state: the manager as its constructor leaves it, the settings   *)
(* as loadSettings read them, no data file yet.                            *)
(***************************************************************************)
Init ==
    /\ reviewItems = <<>>
    /\ lastResetDate = EmptyDate
    /\ newCardsReviewedToday = 0
    /\ newCardsPerDay \in Limits
    /\ now = 0
    /\ disk = NoFile
    /\ phase = "constructed"
    /\ readDay = NoDay
    /\ nRatings = 0
    /\ failuresLeft = 0
    /\ outcome = NoCall
    /\ ViewInit

\* the outcomes of adapter.write: it succeeds, or (a bounded number of
\* times) it fails
WriteOutcomes == IF failuresLeft > 0 THEN {TRUE, FALSE} ELSE {TRUE}

\* mutant: adapter.write only creates the file, it never replaces it
WrittenOnce(ok, items, date, count) ==
    IF ok /\ disk.kind # "data" THEN Snapshot(items, date, count) ELSE disk

\* saveData: adapter.write either stores the snapshot or fails
Written(ok, items, date, count) ==
    IF ok THEN Snapshot(items, date, count) ELSE disk

Failed(ok) == IF ok THEN failuresLeft ELSE failuresLeft - 1

(***************************************************************************)
(* loadData, called once by onload.                                        *)
(***************************************************************************)
LoadData ==
    /\ phase = "constructed"
    /\ phase' = "running"
    /\ \/ /\ disk.kind = "data"
          /\ LET loaded == checkDailyReset(disk.lastResetDate,
                                           disk.newCardsReviewedToday, Today)
             IN  /\ reviewItems' = LoadItems(disk.items, 1, <<>>)
                 /\ lastResetDate' = loaded.lastResetDate
                 /\ newCardsReviewedToday' = loaded.newCardsReviewedToday
          /\ UNCHANGED <<disk, failuresLeft>>
       \/ /\ disk.kind \in {"absent", "blank"}
          /\ reviewItems' = <<>>
          /\ lastResetDate' = initializeDailyData(Today).lastResetDate
          /\ newCardsReviewedToday' =
                 initializeDailyData(Today).newCardsReviewedToday
          \* a failed first save is caught, and one more save is attempted,
          \* whose failure is only logged
          /\ \E ok \in WriteOutcomes :
               /\ failuresLeft' = Failed(ok)
               /\ \E again \in {ok, TRUE} :
                    disk' = Written(again, <<>>, Today, 0)
       \* adapter.read or JSON.parse throws: the catch block empties the
       \* store and attempts one save, whose failure is only logged
       \/ /\ disk.kind \in {"corrupt", "unreadable"}
          /\ reviewItems' = <<>>
          /\ lastResetDate' = initializeDailyData(Today).lastResetDate
          /\ newCardsReviewedToday' =
                 initializeDailyData(Today).newCardsReviewedToday
          /\ \E ok \in WriteOutcomes :
               /\ failuresLeft' = Failed(ok)
               /\ disk' = Written(ok, <<>>, Today, 0)
    /\ UNCHANGED <<newCardsPerDay, now, nRatings>>

(***************************************************************************)
(* trackNote                                                               *)
(***************************************************************************)
\* mutant: a new item is scheduled for the next day
NewItemDueTomorrow(p, time) ==
    [path |-> p, interval |-> InitialInterval,
     easeFactor |-> InitialEaseFactor, repetitions |-> 0,
     nextReviewDate |-> time + TicksPerDay, lastReviewDate |-> NoDate,
     isNew |-> TRUE]

NewItem(p, time) ==
    [path |-> p, interval |-> InitialInterval,
     easeFactor |-> InitialEaseFactor, repetitions |-> 0,
     nextReviewDate |-> time, lastReviewDate |-> NoDate, isNew |-> TRUE]

\* mutant: no early return
NeverTracked(items, p) == FALSE

\* the early return of trackNote
AlreadyTracked(items, p) == MapHas(items, p)

TrackNote(p) ==
    /\ phase = "running"
    /\ IF AlreadyTracked(reviewItems, p)
       THEN /\ UNCHANGED <<reviewItems, disk, failuresLeft>>
       ELSE \E ok \in WriteOutcomes :
            LET inserted == MapSet(reviewItems, p, NewItem(p, now))
            IN  /\ disk' = Written(ok, inserted, lastResetDate,
                                   newCardsReviewedToday)
                /\ reviewItems' = IF ok THEN inserted
                                  ELSE MapDelete(inserted, p)
                /\ failuresLeft' = Failed(ok)
    /\ UNCHANGED <<lastResetDate, newCardsReviewedToday, newCardsPerDay, now,
                   phase, nRatings>>

(***************************************************************************)
(* untrackNote: the save is started but not awaited, its failure is only   *)
(* logged.                                                                 *)
(***************************************************************************)
UntrackNote(p) ==
    /\ phase = "running"
    /\ LET wasTracked == MapHas(reviewItems, p)
       IN  /\ reviewItems' = MapDelete(reviewItems, p)
           /\ IF wasTracked
              THEN \E ok \in WriteOutcomes :
                   /\ disk' = Written(ok, MapDelete(reviewItems, p),
                                      lastResetDate, newCardsReviewedToday)
                   /\ failuresLeft' = Failed(ok)
              ELSE UNCHANGED <<disk, failuresLeft>>
    /\ UNCHANGED <<lastResetDate, newCardsReviewedToday, newCardsPerDay, now,
                   phase, nRatings>>

(***************************************************************************)
(* getDueNotes                                                             *)
(***************************************************************************)
GetDueNotes ==
    /\ phase = "running"
    /\ LET daily == checkDailyReset(lastResetDate, newCardsReviewedToday, Today)
       IN  /\ lastResetDate' = daily.lastResetDate
           /\ newCardsReviewedToday' = daily.newCardsReviewedToday
    /\ UNCHANGED <<reviewItems, newCardsPerDay, now, disk, phase, nRatings,
                   failuresLeft>>

(***************************************************************************)
(* updateNoteReview                                                        *)
(***************************************************************************)
\* mutant: the fraction of a day of the interval is dropped
NextReviewDateWholeDays(time, interval) ==
    time + (interval \div IntervalScale) * TicksPerDay

\* mutant: the interval is not added
NextReviewDateNow(time, interval) == time

\* now + result.interval * 24 * 60 * 60 * 1000: the interval is a whole
\* number of hundredths of a day, a hundredth of a day is 24 ticks
NextReviewDate(time, interval) ==
    time + (interval \div 100) * (TicksPerDay \div 100)

\* mutant: again is scheduled as calculateSM2 says
AgainOverrideNone(item, time) == item

\* if (rating === 'again'): the item comes back in 15 minutes
AgainOverride(item, time) ==
    [item EXCEPT !.repetitions = 0,
                 !.interval = AgainInterval,
                 !.nextReviewDate = time + FifteenMinutes]

\* mutant: a lapse makes the item new again
ReviewedNewOnLapse(item, rating, time) ==
    LET result == calculateSM2(qualityMap(rating), item.repetitions,
                               item.easeFactor, item.interval)
        rated == [item EXCEPT
                    !.easeFactor = result.easeFactor,
                    !.repetitions = result.repetitions,
                    !.interval = result.interval,
                    !.lastReviewDate = time,
                    !.nextReviewDate = NextReviewDate(time, result.interval),
                    !.isNew = (result.repetitions = 0)]
    IN  IF rating = "again" THEN AgainOverride(rated, time) ELSE rated

\* the item after the rating
Reviewed(item, rating, time) ==
    LET result == calculateSM2(qualityMap(rating), item.repetitions,
                               item.easeFactor, item.interval)
        rated == [item EXCEPT
                    !.easeFactor = result.easeFactor,
                    !.repetitions = result.repetitions,
                    !.interval = result.interval,
                    !.lastReviewDate = time,
                    !.nextReviewDate = NextReviewDate(time, result.interval),
                    !.isNew = FALSE]
    IN  IF rating = "again" THEN AgainOverride(rated, time) ELSE rated

\* mutant: every rating counts
CountedAlways(wasNewCard, date, count, today) ==
    LET daily == checkDailyReset(date, count, today)
    IN  DailyData(daily.lastResetDate, daily.newCardsReviewedToday + 1)

\* the daily counter after the rating of an item
Counted(wasNewCard, date, count, today) ==
    IF wasNewCard
    THEN LET daily == checkDailyReset(date, count, today)
         IN  DailyData(daily.lastResetDate, daily.newCardsReviewedToday + 1)
    ELSE DailyData(date, count)

UpdateNoteReview(p, rating) ==
    /\ phase = "running"
    /\ IF ~MapHas(reviewItems, p)
       THEN /\ UNCHANGED <<reviewItems, lastResetDate, newCardsReviewedToday,
                           disk, nRatings, failuresLeft>>
       ELSE /\ nRatings < MaxRatings
            /\ nRatings' = nRatings + 1
            /\ LET item == MapGet(reviewItems, p)
                   daily == Counted(item.isNew, lastResetDate,
                                    newCardsReviewedToday, Today)
                   items == MapSet(reviewItems, p, Reviewed(item, rating, now))
               IN  /\ reviewItems' = items
                   /\ lastResetDate' = daily.lastResetDate
                   /\ newCardsReviewedToday' = daily.newCardsReviewedToday
                   /\ \E ok \in WriteOutcomes :
                        /\ disk' = Written(ok, items, daily.lastResetDate,
                                           daily.newCardsReviewedToday)
                        /\ failuresLeft' = Failed(ok)
    /\ UNCHANGED <<newCardsPerDay, now, phase>>

(***************************************************************************)
(* getDailyLimitInfo                                                       *)
(***************************************************************************)
Max(a, b) == IF a >= b THEN a ELSE b

\* mutant: remaining is not capped at 0
DailyLimitInfoUncapped(used, limit) ==
    [used |-> used, limit |-> limit,
     remaining |-> IF limit = Unlimited THEN 0 - 1 ELSE limit - used]

DailyLimitInfo(used, limit) ==
    [used |-> used, limit |-> limit,
     remaining |-> IF limit = Unlimited THEN 0 - 1 ELSE Max(0, limit - used)]

GetDailyLimitInfo ==
    /\ phase = "running"
    /\ LET daily == checkDailyReset(lastResetDate, newCardsReviewedToday, Today)
       IN  /\ lastResetDate' = daily.lastResetDate
           /\ newCardsReviewedToday' = daily.newCardsReviewedToday
    /\ UNCHANGED <<reviewItems, newCardsPerDay, now, disk, phase, nRatings,
                   failuresLeft>>

(***************************************************************************)
(* getStatistics                                                           *)
(***************************************************************************)
\* mutant: only the interval tells a learning item
IsLearningByInterval(item) == item.interval < 1 * IntervalScale

IsLearning(item) == item.repetitions = 0 \/ item.interval < 1 * IntervalScale

Statistics(items, time) ==
    [total |-> Len(items),
     due |-> Cardinality({i \in 1..Len(items) : items[i].nextReviewDate <= time}),
     new |-> Cardinality({i \in 1..Len(items) : items[i].isNew}),
     learning |-> Cardinality({i \in 1..Len(items) :
                      ~items[i].isNew /\ IsLearning(items[i])}),
     review |-> Cardinality({i \in 1..Len(items) :
                      ~items[i].isNew /\ ~IsLearning(items[i])})]

GetStatistics ==
    /\ phase = "running"
    /\ UNCHANGED <<reviewItems, lastResetDate, newCardsReviewedToday,
                   newCardsPerDay, now, disk, phase, nRatings,
                   failuresLeft>>

(***************************************************************************)
(* cleanupDeletedNotes: missing is the set of paths for which              *)
(* adapter.exists answers false or fails.                                  *)
(***************************************************************************)
CleanupDeletedNotes(missing) ==
    /\ phase = "running"
    /\ LET pathsToDelete == MapKeys(reviewItems) \cap missing
           kept == SelectSeq(reviewItems, LAMBDA it : it.path \notin pathsToDelete)
           cleaned == Cardinality(pathsToDelete)
       IN  IF cleaned > 0
           THEN \E ok \in WriteOutcomes :
                /\ reviewItems' = kept
                /\ disk' = Written(ok, kept, lastResetDate, newCardsReviewedToday)
                /\ failuresLeft' = Failed(ok)
           ELSE /\ UNCHANGED <<reviewItems, disk, failuresLeft>>
    /\ UNCHANGED <<lastResetDate, newCardsReviewedToday, newCardsPerDay, now,
                   phase, nRatings>>

(***************************************************************************)
(* The plugin: the periodic save, the settings tab, unload and a new       *)
(* onload, and the clock.                                                  *)
(***************************************************************************)
\* main.ts: the interval timer saves and only logs a failure
AutoSave ==
    /\ phase = "running"
    /\ \E ok \in WriteOutcomes :
         /\ disk' = Written(ok, reviewItems, lastResetDate, newCardsReviewedToday)
         /\ failuresLeft' = Failed(ok)
    /\ UNCHANGED <<reviewItems, lastResetDate, newCardsReviewedToday,
                   newCardsPerDay, now, phase, nRatings>>

\* settings.ts: the text field accepts 0 < num <= 1000
SetNewCardsPerDay(num) ==
    /\ phase = "running"
    /\ num > 0 /\ num <= 1000
    /\ num # newCardsPerDay
    /\ newCardsPerDay' = num
    /\ UNCHANGED <<reviewItems, lastResetDate, newCardsReviewedToday, now,
                   disk, phase, nRatings, failuresLeft>>

\* the process ends, after the save of onunload or without it, and a new
\* manager is constructed
Restart ==
    /\ phase = "running"
    /\ \E saved \in BOOLEAN :
         disk' = Written(saved, reviewItems, lastResetDate, newCardsReviewedToday)
    /\ reviewItems' = <<>>
    /\ lastResetDate' = EmptyDate
    /\ newCardsReviewedToday' = 0
    /\ phase' = "constructed"
    /\ UNCHANGED <<newCardsPerDay, now, nRatings, failuresLeft>>

\* time passes: a quarter of an hour after midnight, or a day
AdvanceClock(step) ==
    /\ \/ /\ step = FifteenMinutes
          /\ now % TicksPerDay = 0
       \/ /\ step = TicksPerDay
          /\ now \div TicksPerDay < MaxDays
    /\ now' = now + step
    /\ UNCHANGED <<reviewItems, lastResetDate, newCardsReviewedToday,
                   newCardsPerDay, disk, phase, nRatings, failuresLeft>>

\* the calls of the store
StoreCall ==
    \/ \E p \in Paths : TrackNote(p)
    \/ \E p \in Paths : UntrackNote(p)
    \/ GetDueNotes
    \/ \E p \in Paths, rating \in Ratings : UpdateNoteReview(p, rating)
    \/ GetDailyLimitInfo
    \/ GetStatistics
    \/ \E missing \in SUBSET Paths : CleanupDeletedNotes(missing)

\* the steps of the plugin around the store
PluginStep ==
    \/ LoadData
    \/ AutoSave
    \/ Restart
    \/ \E step \in {FifteenMinutes, TicksPerDay} : AdvanceClock(step)

(***************************************************************************)
(* Spec: the store, the plugin and the settings tab; the storage never     *)
(* fails.                                                                  *)
(***************************************************************************)
Next ==
    /\ \/ StoreCall
       \/ PluginStep
       \/ \E num \in 1..MaxLimit : SetNewCardsPerDay(num)
    /\ UNCHANGED <<readDay, outcome>>
    /\ UNCHANGED viewVars

Spec == Init /\ [][Next]_vars

(***************************************************************************)
(* SpecFaults: the store and the plugin under the default limit; up to     *)
(* MaxFailures writes fail.                                                *)
(***************************************************************************)
InitFaults ==
    /\ reviewItems = <<>>
    /\ lastResetDate = EmptyDate
    /\ newCardsReviewedToday = 0
    /\ newCardsPerDay = DefaultNewCardsPerDay
    /\ now = 0
    /\ disk = NoFile
    /\ phase = "constructed"
    /\ readDay = NoDay
    /\ nRatings = 0
    /\ failuresLeft = MaxFailures
    /\ outcome = NoCall
    /\ ViewInit

NextFaults ==
    /\ \/ StoreCall
       \/ PluginStep
    /\ UNCHANGED <<readDay, outcome>>
    /\ UNCHANGED viewVars

SpecFaults == InitFaults /\ [][NextFaults]_vars

(***************************************************************************)
(* SpecDaily: the store and the plugin under the default limit, with the   *)
(* history of the reads of the daily counter: readDay is the day of the    *)
(* latest getDueNotes or getDailyLimitInfo call, and NoDay once an item    *)
(* was rated after it.                                                     *)
(***************************************************************************)
InitDaily ==
    /\ reviewItems = <<>>
    /\ lastResetDate = EmptyDate
    /\ newCardsReviewedToday = 0
    /\ newCardsPerDay = DefaultNewCardsPerDay
    /\ now = 0
    /\ disk = NoFile
    /\ phase = "constructed"
    /\ readDay = NoDay
    /\ nRatings = 0
    /\ failuresLeft = 0
    /\ outcome = NoCall
    /\ ViewInit

\* the reads of the daily counter
ReadsCounter == GetDueNotes \/ GetDailyLimitInfo

NextDaily ==
    /\ \/ ReadsCounter /\ readDay' = Today
       \/ \E p \in Paths, rating \in Ratings :
            /\ UpdateNoteReview(p, rating)
            /\ readDay' = IF MapHas(reviewItems, p) THEN NoDay ELSE readDay
       \/ /\ \/ \E p \in Paths : TrackNote(p)
             \/ \E p \in Paths : UntrackNote(p)
             \/ GetStatistics
             \/ \E missing \in SUBSET Paths : CleanupDeletedNotes(missing)
             \/ PluginStep
          /\ UNCHANGED readDay
    /\ UNCHANGED outcome
    /\ UNCHANGED viewVars

SpecDaily == InitDaily /\ [][NextDaily]_vars

(***************************************************************************)
(* SpecErrors: SpecFaults with the history of what the latest call of the  *)
(* store gave back to its caller: "returned" or "thrown" for the promise   *)
(* of an async method, "true" or "false" for untrackNote.                  *)
(***************************************************************************)
\* the write of the step succeeded (or there was none)
WriteSucceeded == failuresLeft' = failuresLeft

\* mutant: the error of saveData is swallowed
trackNoteSwallows(ok) == "returned"

\* trackNote: the catch block rethrows the error of saveData
trackNoteOutcome(ok) == IF ok THEN "returned" ELSE "thrown"

\* mutant: untrackNote answers true whatever it found
untrackNoteAlwaysTrue(wasTracked) == "true"

\* untrackNote: the failure of the save is caught by the handler of the
\* promise, the method returns wasTracked
untrackNoteOutcome(wasTracked) == IF wasTracked THEN "true" ELSE "false"

\* mutant: the error of saveData is swallowed
updateNoteReviewSwallows(ok) == "returned"

\* updateNoteReview: the catch block rethrows the error of saveData
updateNoteReviewOutcome(ok) == IF ok THEN "returned" ELSE "thrown"

\* mutant: the method tells only whether an item was removed
cleanupDeletedNotesCountsOne(ok, cleaned) ==
    IF ok THEN (IF cleaned > 0 THEN "1" ELSE "0") ELSE "thrown"

\* cleanupDeletedNotes: the catch block rethrows the error of saveData,
\* otherwise the method returns cleaned (here as its decimal string)
cleanupDeletedNotesOutcome(ok, cleaned) ==
    IF ok THEN ToString(cleaned) ELSE "thrown"

\* the calls of the store, with what they give back
TrackNoteCall(p) ==
    TrackNote(p) /\ outcome' = trackNoteOutcome(WriteSucceeded)

UntrackNoteCall(p) ==
    UntrackNote(p) /\ outcome' = untrackNoteOutcome(MapHas(reviewItems, p))

UpdateNoteReviewCall(p, rating) ==
    UpdateNoteReview(p, rating)
        /\ outcome' = updateNoteReviewOutcome(WriteSucceeded)

CleanupDeletedNotesCall(missing) ==
    CleanupDeletedNotes(missing)
        /\ outcome' = cleanupDeletedNotesOutcome(WriteSucceeded,
               Cardinality(MapKeys(reviewItems) \cap missing))

NextErrors ==
    /\ \/ \E p \in Paths : TrackNoteCall(p)
       \/ \E p \in Paths : UntrackNoteCall(p)
       \/ \E p \in Paths, rating \in Ratings : UpdateNoteReviewCall(p, rating)
       \/ \E missing \in SUBSET Paths : CleanupDeletedNotesCall(missing)
       \/ (GetDueNotes \/ GetDailyLimitInfo \/ GetStatistics)
            /\ outcome' = "returned"
       \/ PluginStep /\ outcome' = NoCall
    /\ UNCHANGED readDay
    /\ UNCHANGED viewVars

SpecErrors == InitFaults /\ [][NextErrors]_vars

(***************************************************************************)
(* SpecLoad: SpecErrors over a data file that something outside the plugin *)
(* may damage while the plugin is not loaded.                              *)
(***************************************************************************)
\* mutant: the error of the save in the catch block leaves loadData
loadDataRethrows(ok) == IF ok THEN "returned" ELSE "thrown"

\* loadData: every statement is inside the try block or inside the try
\* block of the catch block
loadDataOutcome(ok) == "returned"

LoadDataCall == LoadData /\ outcome' = loadDataOutcome(WriteSucceeded)

Damaged == {Blank, Corrupt, Unreadable}

\* the data file is truncated, overwritten or made unreadable
Damage(file) ==
    /\ phase = "constructed"
    /\ disk # file
    /\ disk' = file
    /\ UNCHANGED <<reviewItems, lastResetDate, newCardsReviewedToday,
                   newCardsPerDay, now, phase, nRatings, failuresLeft>>

NextLoad ==
    /\ \/ LoadDataCall
       \/ \E p \in Paths : TrackNoteCall(p)
       \/ \E p \in Paths : UntrackNoteCall(p)
       \/ \E p \in Paths, rating \in Ratings : UpdateNoteReviewCall(p, rating)
       \/ (AutoSave \/ Restart) /\ outcome' = NoCall
       \/ AdvanceClock(TicksPerDay) /\ outcome' = NoCall
       \/ \E file \in Damaged : Damage(file) /\ outcome' = NoCall
    /\ UNCHANGED readDay
    /\ UNCHANGED viewVars

SpecLoad == InitFaults /\ [][NextLoad]_vars

(***************************************************************************)
(* SpecRename: the store and the handler of the vault's rename event.      *)
(* When the event is delivered the file has its new path and nothing is    *)
(* left at the old one.                                                    *)
(***************************************************************************)
\* this.srManager.isNoteTracked(file): file.path is the new path
RenameGuard(items, oldPath, newPath) == MapHas(items, newPath)

\* trackedNotes.find(item => item.path === oldPath): 0 when there is none
FindByPath(items, p) ==
    IF \E i \in 1..Len(items) : items[i].path = p
    THEN CHOOSE i \in 1..Len(items) :
            /\ items[i].path = p
            /\ \A j \in 1..(i - 1) : items[j].path # p
    ELSE 0

\* item.path = file.path on the object the map holds
Repathed(item, p) ==
    [path |-> p, key |-> Key(item), interval |-> item.interval,
     easeFactor |-> item.easeFactor, repetitions |-> item.repetitions,
     nextReviewDate |-> item.nextReviewDate,
     lastReviewDate |-> item.lastReviewDate, isNew |-> item.isNew]

\* the rename handler: getAbstractFileByPath(oldPath) finds no file, so
\* untrackNote is not called; trackNote(file) returns at once because the
\* guard has found the new path tracked
RenameFile(oldPath, newPath) ==
    /\ phase = "running"
    /\ oldPath # newPath
    /\ LET i == FindByPath(reviewItems, oldPath)
       IN  reviewItems' =
               IF RenameGuard(reviewItems, oldPath, newPath) /\ i # 0
               THEN [reviewItems EXCEPT ![i] = Repathed(reviewItems[i], newPath)]
               ELSE reviewItems
    /\ UNCHANGED <<lastResetDate, newCardsReviewedToday, newCardsPerDay, now,
                   disk, phase, nRatings, failuresLeft>>

\* no rename event was the latest step
NoRename == [oldPath |-> "", newPath |-> "", wasTracked |-> FALSE]

InitRename ==
    /\ reviewItems = <<>>
    /\ lastResetDate = EmptyDate
    /\ newCardsReviewedToday = 0
    /\ newCardsPerDay = DefaultNewCardsPerDay
    /\ now = 0
    /\ disk = NoFile
    /\ phase = "constructed"
    /\ readDay = NoDay
    /\ nRatings = 0
    /\ failuresLeft = 0
    /\ outcome = NoRename
    /\ ViewInit

\* the event, with what the store held for the old path before it
RenameFileCall(oldPath, newPath) ==
    /\ RenameFile(oldPath, newPath)
    /\ outcome' = [oldPath |-> oldPath, newPath |-> newPath,
                   wasTracked |-> MapHas(reviewItems, oldPath)]

NextRename ==
    /\ \/ (LoadData \/ Restart) /\ outcome' = NoRename
       \/ \E p \in Paths : TrackNote(p) /\ outcome' = NoRename
       \/ \E p \in Paths : UntrackNote(p) /\ outcome' = NoRename
       \/ \E p \in Paths, rating \in Ratings :
             UpdateNoteReview(p, rating) /\ outcome' = NoRename
       \/ \E oldPath \in Paths, newPath \in Paths :
             RenameFileCall(oldPath, newPath)
    /\ UNCHANGED readDay
    /\ UNCHANGED viewVars

SpecRename == InitRename /\ [][NextRename]_vars

(***************************************************************************)
(* SpecCrash: the store and the autosave timer with a storage that may     *)
(* fail MaxFailures + 1 times, and the history of what a crash would lose: *)
(* outcome.before is the store before the latest call that changed it,     *)
(* outcome.failed counts the saves that failed since the latest save that  *)
(* succeeded.                                                              *)
(***************************************************************************)
Memory(items, date, count) ==
    [reviewItems |-> items, lastResetDate |-> date,
     newCardsReviewedToday |-> count]

InitCrash ==
    /\ reviewItems = <<>>
    /\ lastResetDate = EmptyDate
    /\ newCardsReviewedToday = 0
    /\ newCardsPerDay = DefaultNewCardsPerDay
    /\ now = 0
    /\ disk = NoFile
    /\ phase = "constructed"
    /\ readDay = NoDay
    /\ nRatings = 0
    /\ failuresLeft = MaxFailures + 1
    /\ outcome = [before |-> Memory(<<>>, EmptyDate, 0), failed |-> 0]
    /\ ViewInit

\* the saves that failed since the latest one that succeeded
FailedSince ==
    IF failuresLeft' < failuresLeft THEN outcome.failed + 1
    ELSE IF disk' = Snapshot(reviewItems', lastResetDate',
                             newCardsReviewedToday')
    THEN 0
    ELSE outcome.failed

\* a call of trackNote, untrackNote, updateNoteReview or cleanupDeletedNotes
Mutation ==
    \/ \E p \in Paths : TrackNote(p)
    \/ \E p \in Paths : UntrackNote(p)
    \/ \E p \in Paths, rating \in Ratings : UpdateNoteReview(p, rating)
    \/ \E missing \in SUBSET Paths : CleanupDeletedNotes(missing)

NextCrash ==
    /\ \/ /\ Mutation
          /\ outcome' =
                 [before |-> IF reviewItems' # reviewItems
                             THEN Memory(reviewItems, lastResetDate,
                                         newCardsReviewedToday)
                             ELSE outcome.before,
                  failed |-> FailedSince]
       \/ /\ LoadData \/ Restart
          /\ outcome' =
                 [before |-> Memory(reviewItems', lastResetDate',
                                    newCardsReviewedToday'),
                  failed |-> FailedSince]
       \/ /\ AutoSave \/ GetDueNotes \/ AdvanceClock(TicksPerDay)
          /\ outcome' = [outcome EXCEPT !.failed = FailedSince]
    /\ UNCHANGED readDay
    /\ UNCHANGED viewVars

SpecCrash == InitCrash /\ [][NextCrash]_vars

(***************************************************************************)
(* SpecAsync: trackNote as the two steps its await makes of it.  The call  *)
(* inserts the item and builds the data to write before it waits; other    *)
(* calls run while it waits; when the write settles the call returns, or   *)
(* deletes the path and throws.  pending holds the calls that wait.        *)
(* outcome.completed is the set of paths for which a trackNote call has    *)
(* returned without an error, with no untrack or cleanup of the path since *)
(* the call began; outcome.untracked[i] tells whether the path of the call *)
(* pending[i] was untracked or cleaned up since that call began.           *)
(***************************************************************************)
InitAsync ==
    /\ reviewItems = <<>>
    /\ lastResetDate = EmptyDate
    /\ newCardsReviewedToday = 0
    /\ newCardsPerDay = DefaultNewCardsPerDay
    /\ now = 0
    /\ disk = NoFile
    /\ phase = "constructed"
    /\ readDay = NoDay
    /\ nRatings = 0
    /\ failuresLeft = MaxFailures
    /\ outcome = [completed |-> {}, untracked |-> <<>>]
    /\ ViewInit

\* trackNote up to its await: true when the call returns at once
trackNoteReturnsAtOnce(items, p) == MapHas(items, p)

TrackNoteBegin(p) ==
    /\ phase = "running"
    /\ IF trackNoteReturnsAtOnce(reviewItems, p)
       THEN UNCHANGED <<reviewItems, pending>>
       ELSE LET inserted == MapSet(reviewItems, p, NewItem(p, now))
            IN  /\ Len(pending) < MaxPending
                /\ reviewItems' = inserted
                /\ pending' = Append(pending,
                       [path |-> p,
                        data |-> Snapshot(inserted, lastResetDate,
                                          newCardsReviewedToday)])
    /\ UNCHANGED <<lastResetDate, newCardsReviewedToday, newCardsPerDay, now,
                   disk, phase, nRatings, failuresLeft>>

RemoveAt(seq, i) == SubSeq(seq, 1, i - 1) \o SubSeq(seq, i + 1, Len(seq))

\* the catch block of trackNote
Rollback(items, p) == MapDelete(items, p)

\* trackNote from its await on: the write of the call pending[i] settles
TrackNoteEnd(i, ok) ==
    /\ i \in 1..Len(pending)
    /\ ok \in WriteOutcomes
    /\ pending' = RemoveAt(pending, i)
    /\ disk' = IF ok THEN pending[i].data ELSE disk
    /\ reviewItems' = IF ok THEN reviewItems
                      ELSE Rollback(reviewItems, pending[i].path)
    /\ failuresLeft' = Failed(ok)
    /\ UNCHANGED <<lastResetDate, newCardsReviewedToday, newCardsPerDay, now,
                   phase, nRatings>>

AsyncUnchanged ==
    UNCHANGED <<readDay, currentFilters, reviewQueue, frontmatter,
                currentState, currentReviewIndex>>

\* outcome.untracked after the paths gone were untracked or cleaned up
Disturbed(gone) ==
    [i \in 1..Len(pending) |->
        outcome.untracked[i] \/ pending[i].path \in gone]

NextAsync ==
    \/ /\ LoadData
       /\ UNCHANGED <<outcome, pending>>
       /\ AsyncUnchanged
    \/ \E p \in Paths :
          /\ TrackNoteBegin(p)
          /\ outcome' =
                 IF trackNoteReturnsAtOnce(reviewItems, p)
                 THEN [outcome EXCEPT !.completed = @ \cup {p}]
                 ELSE [outcome EXCEPT !.untracked = Append(@, FALSE)]
          /\ AsyncUnchanged
    \/ \E i \in 1..MaxPending, ok \in BOOLEAN :
          /\ TrackNoteEnd(i, ok)
          /\ outcome' =
                 [completed |->
                      IF ok /\ ~outcome.untracked[i]
                      THEN outcome.completed \cup {pending[i].path}
                      ELSE outcome.completed,
                  untracked |-> RemoveAt(outcome.untracked, i)]
          /\ AsyncUnchanged
    \/ \E p \in Paths :
          /\ UntrackNote(p)
          /\ outcome' = [completed |-> outcome.completed \ {p},
                         untracked |-> Disturbed({p})]
          /\ UNCHANGED pending
          /\ AsyncUnchanged
    \/ \E missing \in SUBSET Paths :
          /\ CleanupDeletedNotes(missing)
          /\ outcome' = [completed |-> outcome.completed \ missing,
                         untracked |-> Disturbed(missing)]
          /\ UNCHANGED pending
          /\ AsyncUnchanged

SpecAsync == InitAsync /\ [][NextAsync]_vars

(***************************************************************************)
(* SpecLive: the store over an unbounded number of days.  The code only    *)
(* compares time stamps with now and day keys with today, so a day that    *)
(* passes is modelled by moving the origin of time: now stays at 0, every  *)
(* stored time stamp goes back by a day (the model forgets how far back    *)
(* beyond MaxPast days), and a stored day key becomes PastDay, some day    *)
(* before today.  nRatings counts the ratings of the day.  Only new items   *)
(* are rated here: rating a rated item changes neither the counter of the  *)
(* day nor the order of the store, which is all that the admission of a    *)
(* new item reads.                                                         *)
(***************************************************************************)
PastDay == 0 - 3

ShiftDayKept(d) == d

ShiftDay(d) == IF d = EmptyDate THEN EmptyDate ELSE PastDay

ShiftDate(d) ==
    IF d = NoDate THEN NoDate
    ELSE Max(d - TicksPerDay, 0 - MaxPast * TicksPerDay)

ShiftItem(item) ==
    [item EXCEPT !.nextReviewDate = ShiftDate(item.nextReviewDate),
                 !.lastReviewDate = ShiftDate(item.lastReviewDate)]

ShiftFile(file) ==
    IF file.kind # "data" THEN file
    ELSE Snapshot([i \in 1..Len(file.items) |->
                      ShiftItem(ItemFromJson(file.items[i]))],
                  ShiftDay(file.lastResetDate), file.newCardsReviewedToday)

InitLive ==
    /\ reviewItems = <<>>
    /\ lastResetDate = EmptyDate
    /\ newCardsReviewedToday = 0
    /\ newCardsPerDay \in Limits
    /\ now = 0
    /\ disk = NoFile
    /\ phase = "constructed"
    /\ readDay = NoDay
    /\ nRatings = 0
    /\ failuresLeft = 0
    /\ outcome = NoCall
    /\ ViewInit

\* midnight passes
NextDay ==
    /\ phase = "running"
    /\ reviewItems' = [i \in 1..Len(reviewItems) |-> ShiftItem(reviewItems[i])]
    /\ lastResetDate' = ShiftDay(lastResetDate)
    /\ disk' = ShiftFile(disk)
    /\ nRatings' = 0
    /\ UNCHANGED <<newCardsReviewedToday, newCardsPerDay, now, phase,
                   failuresLeft>>

\* what getDueNotes returns now holds the path p
Returned(p) ==
    LET reviewed == checkDailyReset(lastResetDate, newCardsReviewedToday,
                                    Today).newCardsReviewedToday
        due == getDueNotes(reviewItems, reviewed, newCardsPerDay, now)
    IN  \E j \in 1..Len(due) : due[j].path = p

\* updateNoteReview for a new item that getDueNotes returns
RateReturnedNew(p) ==
    /\ MapHas(reviewItems, p)
    /\ MapGet(reviewItems, p).isNew
    /\ Returned(p)
    /\ \E rating \in Ratings : UpdateNoteReview(p, rating)

\* updateNoteReview for a new item, returned by getDueNotes or not
RateNew(p, rating) ==
    /\ MapHas(reviewItems, p)
    /\ MapGet(reviewItems, p).isNew
    /\ UpdateNoteReview(p, rating)

LoadDataLive == LoadData /\ UNCHANGED <<readDay, outcome>> /\ UNCHANGED viewVars

NextDayLive == NextDay /\ UNCHANGED <<readDay, outcome>> /\ UNCHANGED viewVars

RateReturnedNewLive(p) ==
    RateReturnedNew(p) /\ UNCHANGED <<readDay, outcome>> /\ UNCHANGED viewVars

NextLive ==
    \/ LoadDataLive
    \/ NextDayLive
    \/ \E p \in Paths : RateReturnedNewLive(p)
    \/ /\ \/ \E p \in Paths : TrackNote(p)
          \/ \E p \in Paths : UntrackNote(p)
          \/ GetDueNotes
          \/ \E p \in Paths, rating \in Ratings : RateNew(p, rating)
       /\ UNCHANGED <<readDay, outcome>>
       /\ UNCHANGED viewVars

\* the clock keeps advancing, and a new item that getDueNotes returns again
\* and again is rated in the end
SpecLive ==
    /\ InitLive
    /\ [][NextLive]_vars
    /\ WF_vars(LoadDataLive)
    /\ WF_vars(NextDayLive)
    /\ \A p \in Paths : SF_vars(RateReturnedNewLive(p))

(***************************************************************************)
(* SpecReviews: the store alone, at one instant and with a storage that    *)
(* never fails, with room for MaxReviews ratings: long enough a series of  *)
(* ratings for the ease factor to come down to its floor.                  *)
(***************************************************************************)
InitReviews ==
    /\ reviewItems = <<>>
    /\ lastResetDate = EmptyDate
    /\ newCardsReviewedToday = 0
    /\ newCardsPerDay = DefaultNewCardsPerDay
    /\ now = 0
    /\ disk = NoFile
    /\ phase = "constructed"
    /\ readDay = NoDay
    /\ nRatings = MaxRatings - MaxReviews
    /\ failuresLeft = 0
    /\ outcome = NoCall
    /\ ViewInit

NextReviews ==
    /\ \/ LoadData
       \/ \E p \in Paths : TrackNote(p)
       \/ \E p \in Paths : UntrackNote(p)
       \/ \E p \in Paths, rating \in Ratings : UpdateNoteReview(p, rating)
       \/ \E missing \in SUBSET Paths : CleanupDeletedNotes(missing)
    /\ UNCHANGED <<readDay, outcome>>
    /\ UNCHANGED viewVars

SpecReviews == InitReviews /\ [][NextReviews]_vars

(***************************************************************************)
(* SpecSM2: calculateSM2 alone.  The function is called on inputs drawn    *)
(* from bounded sets, then up to MaxChain - 1 more times on the fields it  *)
(* has returned, as updateNoteReview does when an item is rated again.     *)
(* Here outcome is the sequence of these calls, each with its inputs and   *)
(* its result.                                                             *)
(***************************************************************************)
Qualities == {qualityMap(rating) : rating \in Ratings}

RepetitionInputs == 0..MaxRepetitions

\* from below the floor to above the initial ease factor
EaseInputs == (MinEaseFactor - EaseMargin)..(InitialEaseFactor + EaseMargin)

\* 0.0104, 1, 6, 14.4, 281 and 365 days
IntervalInputs ==
    {AgainInterval, MinInterval, 6 * IntervalScale, 144 * (IntervalScale \div 10),
     281 * IntervalScale, MaxInterval}

SM2Call(quality, repetitions, easeFactor, interval) ==
    [quality |-> quality, repetitions |-> repetitions,
     easeFactor |-> easeFactor, interval |-> interval,
     result |-> calculateSM2(quality, repetitions, easeFactor, interval)]

InitSM2 ==
    /\ reviewItems = <<>>
    /\ lastResetDate = EmptyDate
    /\ newCardsReviewedToday = 0
    /\ newCardsPerDay = DefaultNewCardsPerDay
    /\ now = 0
    /\ disk = NoFile
    /\ phase = "constructed"
    /\ readDay = NoDay
    /\ nRatings = 0
    /\ failuresLeft = 0
    /\ outcome = <<>>
    /\ ViewInit

\* a call on fresh inputs
CalculateSM2(quality, repetitions, easeFactor, interval) ==
    /\ outcome = <<>>
    /\ ViewInit
    /\ outcome' = <<SM2Call(quality, repetitions, easeFactor, interval)>>

\* a call on the fields the latest call returned
CalculateSM2Again(quality) ==
    /\ outcome # <<>>
    /\ Len(outcome) < MaxChain
    /\ LET last == outcome[Len(outcome)].result
       IN  outcome' = Append(outcome,
               SM2Call(quality, last.repetitions, last.easeFactor,
                       last.interval))

NextSM2 ==
    /\ \/ /\ outcome = <<>>
          /\ \E quality \in Qualities, repetitions \in RepetitionInputs,
               easeFactor \in EaseInputs, interval \in IntervalInputs :
                 CalculateSM2(quality, repetitions, easeFactor, interval)
       \/ \E quality \in Qualities : CalculateSM2Again(quality)
    /\ UNCHANGED <<reviewItems, lastResetDate, newCardsReviewedToday,
                   newCardsPerDay, now, disk, phase, readDay, nRatings,
                   failuresLeft>>
    /\ UNCHANGED viewVars

SpecSM2 == InitSM2 /\ [][NextSM2]_vars

(***************************************************************************)
(* The filter view: getAllProperties, getPropertyValues, getFilteredItems  *)
(* and the handlers of the Add Filter, remove, Clear Filters and Apply     *)
(* Filters buttons.                                                        *)
(***************************************************************************)
\* the paths of the tracked notes that are files with a frontmatter
WithFrontmatter(items, cache) ==
    {items[i].path : i \in {j \in 1..Len(items) :
                                cache[items[j].path].kind = "frontmatter"}}

\* Object.keys of the frontmatters of the tracked notes
getAllProperties(items, cache) ==
    {property \in Properties :
        \E p \in WithFrontmatter(items, cache) :
            cache[p].frontmatter[property] # Undefined}

\* the strings the value dropdown offers for a property
ValuesOf(value) ==
    IF value.kind = "list"
    THEN {value.elements[i].text : i \in {j \in 1..Len(value.elements) :
              value.elements[j].kind \notin {"undefined", "null"}}}
    ELSE IF value.kind \in {"string", "number"} THEN {value.text}
    ELSE {}

getPropertyValues(items, cache, property) ==
    UNION {ValuesOf(cache[p].frontmatter[property]) :
              p \in WithFrontmatter(items, cache)}

\* mutant: an element of a list is compared after String(), as a scalar is
MatchesStringified(propValue, filter) ==
    IF propValue.kind = "list"
    THEN \E i \in 1..Len(propValue.elements) :
            propValue.elements[i].text = filter.value
    ELSE IF propValue.kind \notin {"undefined", "null"}
    THEN propValue.text = filter.value
    ELSE FALSE

\* propValue.includes(filter.value) compares with ===: only an element that
\* is a string can equal the filter's value
Matches(propValue, filter) ==
    IF propValue.kind = "list"
    THEN \E i \in 1..Len(propValue.elements) :
            /\ propValue.elements[i].kind = "string"
            /\ propValue.elements[i].text = filter.value
    ELSE IF propValue.kind \notin {"undefined", "null"}
    THEN propValue.text = filter.value
    ELSE FALSE

\* mutant: every connector folds as OR
CombineAsOr(connector, currentResult, matches) == currentResult \/ matches

Combine(connector, currentResult, matches) ==
    IF connector = "AND" THEN currentResult /\ matches
    ELSE currentResult \/ matches

\* mutant: the loop never leaves early
BreaksNever(connector, currentResult) == FALSE

\* if (filter.connector === 'AND' && !currentResult) break;
Breaks(connector, currentResult) == connector = "AND" /\ ~currentResult

\* the loop over the chain from index i on (1-based), with its break
RECURSIVE FilterLoop(_, _, _, _)
FilterLoop(fm, filters, i, currentResult) ==
    IF i > Len(filters) THEN currentResult
    ELSE LET filter == filters[i]
             matches == Matches(fm[filter.property], filter)
             result == IF i = 1 THEN matches
                       ELSE Combine(filter.connector, currentResult, matches)
         IN  IF Breaks(filter.connector, result) THEN result
             ELSE FilterLoop(fm, filters, i + 1, result)

Selected(item, filters, cache) ==
    /\ cache[item.path].kind = "frontmatter"
    /\ FilterLoop(cache[item.path].frontmatter, filters, 1, TRUE)

getFilteredItems(items, filters, cache) ==
    IF Len(filters) = 0 THEN items
    ELSE SelectSeq(items, LAMBDA item : Selected(item, filters, cache))

\* renderView on the filter view calls getFilteredItems and
\* getDailyLimitInfo, which run the lazy reset of the daily counter
RenderFilterView ==
    /\ LET daily == checkDailyReset(lastResetDate, newCardsReviewedToday, Today)
       IN  /\ lastResetDate' = daily.lastResetDate
           /\ newCardsReviewedToday' = daily.newCardsReviewedToday
    /\ UNCHANGED <<reviewItems, newCardsPerDay, now, disk, phase, nRatings,
                   failuresLeft>>

\* the Add Filter button: the first filter gets the connector AND
AddFilter(property, value, connector) ==
    /\ phase = "running"
    /\ Len(currentFilters) < MaxFilters
    /\ property \in getAllProperties(reviewItems, frontmatter)
    /\ value \in getPropertyValues(reviewItems, frontmatter, property)
    /\ Len(currentFilters) = 0 => connector = "AND"
    /\ currentFilters' = Append(currentFilters,
           [property |-> property, value |-> value, connector |-> connector])
    /\ RenderFilterView
    /\ UNCHANGED <<reviewQueue, frontmatter>>
    /\ UNCHANGED sessionVars

\* the remove button of the filter at index: currentFilters.splice(index, 1)
RemoveFilter(index) ==
    /\ phase = "running"
    /\ index \in 1..Len(currentFilters)
    /\ currentFilters' = SubSeq(currentFilters, 1, index - 1)
                           \o SubSeq(currentFilters, index + 1,
                                     Len(currentFilters))
    /\ RenderFilterView
    /\ UNCHANGED <<reviewQueue, frontmatter>>
    /\ UNCHANGED sessionVars

ClearFilters ==
    /\ phase = "running"
    /\ currentFilters # <<>>
    /\ currentFilters' = <<>>
    /\ RenderFilterView
    /\ UNCHANGED <<reviewQueue, frontmatter>>
    /\ UNCHANGED sessionVars

\* applyFilters: the queue becomes what getFilteredItems returns
ApplyFilters ==
    /\ phase = "running"
    /\ LET daily == checkDailyReset(lastResetDate, newCardsReviewedToday, Today)
       IN  /\ lastResetDate' = daily.lastResetDate
           /\ newCardsReviewedToday' = daily.newCardsReviewedToday
           /\ reviewQueue' =
                  getFilteredItems(
                      getDueNotes(reviewItems, daily.newCardsReviewedToday,
                                  newCardsPerDay, now),
                      currentFilters, frontmatter)
    /\ UNCHANGED <<reviewItems, newCardsPerDay, now, disk, phase, nRatings,
                   failuresLeft, currentFilters, frontmatter>>
    /\ UNCHANGED sessionVars

(***************************************************************************)
(* SpecFilter: the filter view over a store of new items, at one instant   *)
(* and with a storage that never fails; the vault resolves for each note   *)
(* one of Caches.                                                          *)
(***************************************************************************)
TagValues ==
    {Undefined, Null, Str("work"), Str("personal"), Num("5"),
     List(<<Str("work"), Str("personal")>>), List(<<Num("5")>>)}

StatusValues == {Undefined, Str("active")}

Caches ==
    {NotAFile, NoFrontmatter}
        \cup {Frontmatter([property \in Properties |->
                              IF property = "tag" THEN t ELSE st]) :
                  t \in TagValues, st \in StatusValues}

FilterValues == {"work", "personal", "5", "active"}

Connectors == {"AND", "OR"}

InitFilter ==
    /\ reviewItems = <<>>
    /\ lastResetDate = EmptyDate
    /\ newCardsReviewedToday = 0
    /\ newCardsPerDay = DefaultNewCardsPerDay
    /\ now = 0
    /\ disk = NoFile
    /\ phase = "constructed"
    /\ readDay = NoDay
    /\ nRatings = 0
    /\ failuresLeft = 0
    /\ outcome = NoCall
    /\ currentFilters = <<>>
    /\ reviewQueue = <<>>
    /\ frontmatter \in [Paths -> Caches]
    /\ SessionInit

NextFilter ==
    /\ \/ /\ \/ LoadData
             \/ \E p \in Paths : TrackNote(p)
          /\ UNCHANGED viewVars
       \/ \E property \in Properties, value \in FilterValues,
             connector \in Connectors : AddFilter(property, value, connector)
       \/ \E index \in 1..MaxFilters : RemoveFilter(index)
       \/ ClearFilters
       \/ ApplyFilters
    /\ UNCHANGED <<readDay, outcome>>

SpecFilter == InitFilter /\ [][NextFilter]_vars

(***************************************************************************)
(* Properties.                                                             *)
(***************************************************************************)
Min(a, b) == IF a <= b THEN a ELSE b

\* the counter a lazy check would leave in the current state
Used == checkDailyReset(lastResetDate, newCardsReviewedToday, Today).newCardsReviewedToday

\* what a getDueNotes call returns in the current state
DueNotes == getDueNotes(reviewItems, Used, newCardsPerDay, now)

NewCount(items) == Cardinality({i \in 1..Len(items) : items[i].isNew})

Contains(items, p) == \E i \in 1..Len(items) : items[i].path = p

\* C1 (as stated): with a finite limit, getDueNotes never returns more new
\* items than limit - used.
C1_AsStated ==
    newCardsPerDay # Unlimited => NewCount(DueNotes) <= newCardsPerDay - Used

\* C1 (amended): with a finite limit, getDueNotes never returns more new
\* items than max(0, limit - used), used being the counter after the lazy
\* reset; limit - used itself is negative once the limit was lowered below
\* the number of new items already reviewed.
C1_NewItemsWithinCap ==
    newCardsPerDay # Unlimited
        => NewCount(DueNotes) <= Max(0, newCardsPerDay - Used)

\* the cap binds after a new item was reviewed: more new items are tracked
\* than the budget left, and the queue holds exactly the budget
C1_Witness ==
    /\ phase = "running"
    /\ newCardsPerDay # Unlimited
    /\ Used > 0
    /\ newCardsPerDay - Used > 0
    /\ NewCount(reviewItems) > newCardsPerDay - Used
    /\ NewCount(DueNotes) = newCardsPerDay - Used

\* C2: with limit -1 every tracked new item is returned; with a finite limit
\* the number of new items returned is min(tracked new items,
\* max(0, limit - used)), and they are the first ones in insertion order.
C2_NewItemsAdmitted ==
    /\ newCardsPerDay = Unlimited =>
         \A i \in 1..Len(reviewItems) :
             reviewItems[i].isNew => Contains(DueNotes, reviewItems[i].path)
    /\ newCardsPerDay # Unlimited =>
         /\ NewCount(DueNotes)
              = Min(NewCount(reviewItems), Max(0, newCardsPerDay - Used))
         /\ \A i, j \in 1..Len(reviewItems) :
              (/\ i < j
               /\ reviewItems[i].isNew
               /\ reviewItems[j].isNew
               /\ Contains(DueNotes, reviewItems[j].path))
              => Contains(DueNotes, reviewItems[i].path)

\* two new items and a limit of 1: only the first one is returned
C2_Witness ==
    /\ phase = "running"
    /\ newCardsPerDay = 1
    /\ Used = 0
    /\ Len(reviewItems) = 2
    /\ NewCount(reviewItems) = 2
    /\ Len(DueNotes) = 1
    /\ DueNotes[1] = reviewItems[1]

\* C3: an item that is not new is returned by getDueNotes if and only if its
\* nextReviewDate <= now, whatever the daily limit and the counter.
C3_ReviewedItemsDueByDate ==
    \A i \in 1..Len(reviewItems) :
        ~reviewItems[i].isNew =>
            \A limit \in Limits, used \in 0..MaxRatings :
                Contains(getDueNotes(reviewItems, used, limit, now),
                         reviewItems[i].path)
                    <=> reviewItems[i].nextReviewDate <= now

\* a reviewed item comes due at this very instant while the budget of new
\* items is used up, and another reviewed item is not due yet
C3_Witness ==
    /\ phase = "running"
    /\ newCardsPerDay # Unlimited
    /\ Used >= newCardsPerDay
    /\ \E i, j \in 1..Len(reviewItems) :
         /\ ~reviewItems[i].isNew
         /\ reviewItems[i].nextReviewDate = now
         /\ Contains(DueNotes, reviewItems[i].path)
         /\ ~reviewItems[j].isNew
         /\ reviewItems[j].nextReviewDate > now
         /\ ~Contains(DueNotes, reviewItems[j].path)

\* C4: the result of getDueNotes is sorted by ascending interval, and by
\* ascending nextReviewDate among equal intervals.
C4_DueNotesSorted ==
    \A i \in 1..(Len(DueNotes) - 1) :
        \/ DueNotes[i].interval < DueNotes[i + 1].interval
        \/ /\ DueNotes[i].interval = DueNotes[i + 1].interval
           /\ DueNotes[i].nextReviewDate <= DueNotes[i + 1].nextReviewDate

\* the tie-break reorders: two due items of equal interval, the one inserted
\* first being scheduled later
C4_Witness ==
    /\ phase = "running"
    /\ Len(reviewItems) = 2
    /\ Len(DueNotes) = 2
    /\ reviewItems[1].interval = reviewItems[2].interval
    /\ reviewItems[1].nextReviewDate > reviewItems[2].nextReviewDate
    /\ DueNotes[1] = reviewItems[2]
    /\ DueNotes[2] = reviewItems[1]

\* C5: a read of the daily counter on another day than the previous read,
\* with no rating in between, reports used = 0 and sets lastResetDate to
\* the new day, also when the process was restarted in between.
C5_ResetAcrossDays ==
    [][(ReadsCounter /\ readDay # NoDay /\ readDay # Today)
          => (newCardsReviewedToday' = 0 /\ lastResetDate' = Today)]_vars

\* a read on a later day has reset a counter that the data file still holds
\* with its value of the day before
C5_Witness ==
    /\ phase = "running"
    /\ Today > 0
    /\ readDay = Today
    /\ lastResetDate = Today
    /\ newCardsReviewedToday = 0
    /\ disk.kind = "data"
    /\ disk.lastResetDate < Today
    /\ disk.newCardsReviewedToday > 0

\* C6 (as stated): no call of the store made within one calendar day
\* decreases newCardsReviewedToday.
C6_AsStated ==
    [][StoreCall => newCardsReviewedToday' >= newCardsReviewedToday]_vars

\* C6 (amended): the counter decreases only when a lazy check observes a day
\* different from lastResetDate, and then it is reset to 0 (and counts 1 if
\* the check is the one of a rating of a new item) with lastResetDate set to
\* the day; once lastResetDate is the current day, no call of the store
\* decreases the counter or changes lastResetDate.
C6_ResetOnlyOnNewDay ==
    [][StoreCall =>
         /\ newCardsReviewedToday' < newCardsReviewedToday
              => (/\ lastResetDate # Today
                  /\ lastResetDate' = Today
                  /\ newCardsReviewedToday' = IF ReadsCounter THEN 0 ELSE 1)
         /\ lastResetDate = Today
              => (/\ newCardsReviewedToday' >= newCardsReviewedToday
                  /\ lastResetDate' = lastResetDate)]_vars

\* two new items were rated, one on an earlier day and one today: the counter
\* was reset in between and holds the one of today
C6_Witness ==
    /\ phase = "running"
    /\ Today > 0
    /\ lastResetDate = Today
    /\ nRatings = 2
    /\ newCardsReviewedToday = 1
    /\ Len(reviewItems) = 2
    /\ \E i, j \in 1..2 :
         /\ ~reviewItems[i].isNew
         /\ reviewItems[i].lastReviewDate < Today * TicksPerDay
         /\ ~reviewItems[j].isNew
         /\ reviewItems[j].lastReviewDate >= Today * TicksPerDay

\* C7: updateNoteReview of a tracked item adds exactly 1 to the counter left
\* by the lazy check if the item was new, leaves the counter and
\* lastResetDate as they are otherwise, and leaves the item not new.
C7_CountsNewItemsOnce ==
    [][\A p \in Paths, rating \in Ratings :
          (UpdateNoteReview(p, rating) /\ MapHas(reviewItems, p)) =>
              /\ MapGet(reviewItems, p).isNew =>
                     /\ newCardsReviewedToday' = Used + 1
                     /\ lastResetDate' = Today
              /\ ~MapGet(reviewItems, p).isNew =>
                     /\ newCardsReviewedToday' = newCardsReviewedToday
                     /\ lastResetDate' = lastResetDate
              /\ MapHas(reviewItems', p)
              /\ ~MapGet(reviewItems', p).isNew]_vars

\* an item was rated twice at this instant, the counter holding the one
\* rating that found it new
C7_Witness ==
    /\ phase = "running"
    /\ nRatings = 2
    /\ newCardsReviewedToday = 1
    /\ lastResetDate = Today
    /\ Today > 0
    /\ \E i \in 1..Len(reviewItems) :
         /\ ~reviewItems[i].isNew
         /\ reviewItems[i].lastReviewDate = now

C9_TrackInsertsNewItem ==
    [][\A p \in Paths :
          (TrackNote(p) /\ ~MapHas(reviewItems, p) /\ WriteSucceeded) =>
              /\ reviewItems' = Append(reviewItems,
                     [path |-> p, interval |-> 1 * IntervalScale,
                      easeFactor |-> 250, repetitions |-> 0,
                      nextReviewDate |-> now, lastReviewDate |-> NoDate,
                      isNew |-> TRUE])
              /\ lastResetDate' = lastResetDate
              /\ newCardsReviewedToday' = newCardsReviewedToday]_vars

\* an item was tracked at this instant, after an earlier item was rated and
\* after a write had failed
C9_Witness ==
    /\ phase = "running"
    /\ now > 0
    /\ failuresLeft < MaxFailures
    /\ newCardsReviewedToday > 0
    /\ Len(reviewItems) = 2
    /\ ~reviewItems[1].isNew
    /\ reviewItems[2].isNew
    /\ reviewItems[2].nextReviewDate = now
    /\ disk = Snapshot(reviewItems, lastResetDate, newCardsReviewedToday)

\* C10: trackNote of a tracked path changes no field of any item, writes
\* nothing and raises no error, whether or not the item was rated.
C10_TrackIsIdempotent ==
    [][\A p \in Paths :
          (TrackNote(p) /\ MapHas(reviewItems, p)) =>
              /\ reviewItems' = reviewItems
              /\ disk' = disk
              /\ failuresLeft' = failuresLeft
              /\ lastResetDate' = lastResetDate
              /\ newCardsReviewedToday' = newCardsReviewedToday]_vars

\* a rated item is tracked while the data file is behind the store and a
\* write may fail
C10_Witness ==
    /\ phase = "running"
    /\ failuresLeft > 0
    /\ \E i \in 1..Len(reviewItems) :
         /\ ~reviewItems[i].isNew
         /\ reviewItems[i].repetitions > 0
    /\ disk # Snapshot(reviewItems, lastResetDate, newCardsReviewedToday)

\* C11: trackNote of an untracked path whose save fails throws the error
\* and leaves the store, the daily counter and the data file as they were
\* before the call; the path is not tracked.
C11_TrackRollsBack ==
    [][\A p \in Paths :
          (TrackNoteCall(p) /\ ~MapHas(reviewItems, p) /\ ~WriteSucceeded) =>
              /\ outcome' = "thrown"
              /\ ~MapHas(reviewItems', p)
              /\ reviewItems' = reviewItems
              /\ lastResetDate' = lastResetDate
              /\ newCardsReviewedToday' = newCardsReviewedToday
              /\ disk' = disk]_vars

\* a call has thrown while the data file agrees with a store that holds a
\* rated item: the call was a trackNote whose insert was rolled back
C11_Witness ==
    /\ phase = "running"
    /\ outcome = "thrown"
    /\ failuresLeft = MaxFailures - 1
    /\ Len(reviewItems) = 1
    /\ ~reviewItems[1].isNew
    /\ newCardsReviewedToday > 0
    /\ disk = Snapshot(reviewItems, lastResetDate, newCardsReviewedToday)

\* C12: untrackNote returns true exactly when the path was tracked; after the
\* call the path is not tracked and the other items are as before, whether
\* the save succeeded or not, and the call never throws.
C12_UntrackIsBestEffort ==
    [][\A p \in Paths :
          UntrackNoteCall(p) =>
              /\ outcome' = "true" <=> MapHas(reviewItems, p)
              /\ outcome' \in {"true", "false"}
              /\ ~MapHas(reviewItems', p)
              /\ reviewItems' = SelectSeq(reviewItems, LAMBDA it : it.path # p)
              /\ lastResetDate' = lastResetDate
              /\ newCardsReviewedToday' = newCardsReviewedToday]_vars

\* untrackNote has returned true although its save failed: the data file
\* still holds an item that the store no longer tracks
C12_Witness ==
    /\ phase = "running"
    /\ outcome = "true"
    /\ failuresLeft = MaxFailures - 1
    /\ disk.kind = "data"
    /\ \E i \in 1..Len(disk.items) : ~MapHas(reviewItems, disk.items[i].path)

\* C13: updateNoteReview and untrackNote of an untracked path change no item,
\* neither lastResetDate nor newCardsReviewedToday, write nothing and do not
\* throw; untrackNote returns false.
C13_UnknownPathIsNoOp ==
    [][\A p \in Paths :
          ~MapHas(reviewItems, p) =>
              /\ \A rating \in Ratings :
                   UpdateNoteReviewCall(p, rating) =>
                       /\ outcome' = "returned"
                       /\ UNCHANGED <<reviewItems, lastResetDate,
                                      newCardsReviewedToday, disk, failuresLeft>>
              /\ UntrackNoteCall(p) =>
                       /\ outcome' = "false"
                       /\ UNCHANGED <<reviewItems, lastResetDate,
                                      newCardsReviewedToday, disk, failuresLeft>>]_vars

\* untrackNote has returned false on a store that holds a rated item, on a
\* later day than the last reset, while a write may still fail
C13_Witness ==
    /\ phase = "running"
    /\ outcome = "false"
    /\ failuresLeft > 0
    /\ Len(reviewItems) = 1
    /\ ~reviewItems[1].isNew
    /\ newCardsReviewedToday > 0
    /\ lastResetDate # Today

\* C14: updateNoteReview of a tracked item whose save fails throws the error
\* and keeps what it did in memory: the item has its new scheduling fields
\* and is not new, the daily counter has counted it if it was new; the data
\* file is as before.
C14_ReviewKeptOnFailure ==
    [][\A p \in Paths, rating \in Ratings :
          (/\ UpdateNoteReviewCall(p, rating)
           /\ MapHas(reviewItems, p)
           /\ ~WriteSucceeded) =>
              /\ outcome' = "thrown"
              /\ MapHas(reviewItems', p)
              /\ MapGet(reviewItems', p)
                     = Reviewed(MapGet(reviewItems, p), rating, now)
              /\ ~MapGet(reviewItems', p).isNew
              /\ MapGet(reviewItems', p).lastReviewDate = now
              /\ newCardsReviewedToday' =
                     IF MapGet(reviewItems, p).isNew
                     THEN Used + 1 ELSE newCardsReviewedToday
              /\ disk' = disk]_vars

\* a rating has thrown: the store holds the rated item and has counted it,
\* the data file still holds it as a new item
C14_Witness ==
    /\ phase = "running"
    /\ outcome = "thrown"
    /\ failuresLeft = MaxFailures - 1
    /\ newCardsReviewedToday = 1
    /\ disk.kind = "data"
    /\ disk.newCardsReviewedToday = 0
    /\ \E i \in 1..Len(reviewItems), j \in 1..Len(disk.items) :
         /\ ~reviewItems[i].isNew
         /\ reviewItems[i].lastReviewDate = now
         /\ disk.items[j].path = reviewItems[i].path
         /\ disk.items[j].isNew

\* C15: every tracked item has easeFactor >= 1.3, in every state reached from
\* the empty store by trackNote, untrackNote, updateNoteReview and
\* cleanupDeletedNotes.
C15_EaseFactorFloor ==
    \A i \in 1..Len(reviewItems) : reviewItems[i].easeFactor >= 130

\* nine good ratings in a row have taken the ease factor of an item from 2.5
\* down to the floor
C15_Witness ==
    /\ phase = "running"
    /\ \E i \in 1..Len(reviewItems) :
         /\ reviewItems[i].easeFactor = 130
         /\ reviewItems[i].repetitions = 9
         /\ ~reviewItems[i].isNew

\* C16 (as stated): for every input, an easeFactor below 1.3 included, the
\* easeFactor calculateSM2 returns is >= 1.3.
C16_AsStated ==
    \A i \in 1..Len(outcome) : outcome[i].result.easeFactor >= 130

\* C16 (amended): the easeFactor calculateSM2 returns is >= 1.3 for every
\* input whose quality is >= 3 or whose easeFactor is >= 1.3; for a quality
\* below 3 the input easeFactor is returned as it is, below 1.3 included.
C16_EaseFloorOnSuccess ==
    \A i \in 1..Len(outcome) :
        /\ (outcome[i].quality >= 3 \/ outcome[i].easeFactor >= 130)
               => outcome[i].result.easeFactor >= 130
        /\ outcome[i].quality < 3
               => outcome[i].result.easeFactor = outcome[i].easeFactor

\* an input easeFactor below 1.3 rated good comes back at the floor
C16_Witness ==
    /\ Len(outcome) = 1
    /\ outcome[1].quality = 3
    /\ outcome[1].easeFactor < 130
    /\ outcome[1].result.easeFactor = 130

ComputedInterval(call) ==
    IF call.repetitions + 1 = 1 THEN 1 * 100 * IntervalScale
    ELSE IF call.repetitions + 1 = 2 THEN 6 * 100 * IntervalScale
    ELSE call.interval * call.result.easeFactor

\* the computed interval times tenths, clamped to [1, 365], rounded
ScaledThenClamped(call, tenths) ==
    Round2(ClampInterval(Scaled(ComputedInterval(call), tenths)))

\* C18 (as stated): quality 5 scales the computed interval by 1.3 and
\* quality 2 scales it by 0.6, and the scaled value is then clamped to
\* [1, 365].
C18_AsStated ==
    \A i \in 1..Len(outcome) :
        /\ outcome[i].quality = 5 =>
               outcome[i].result.interval = ScaledThenClamped(outcome[i], 13)
        /\ outcome[i].quality = 2 =>
               outcome[i].result.interval = ScaledThenClamped(outcome[i], 6)

\* C19 (as stated): from repetitions = 0, two successful ratings in a row,
\* good or easy in any combination, give the intervals 1 and then 6.
C19_AsStated ==
    (/\ Len(outcome) = 2
     /\ outcome[1].repetitions = 0
     /\ outcome[1].quality >= 3
     /\ outcome[2].quality >= 3)
    => (/\ outcome[1].result.interval = 1 * IntervalScale
        /\ outcome[2].result.interval = 6 * IntervalScale)

\* C19 (amended): from repetitions = 0, two successful ratings in a row give
\* the intervals 1 and then 6 where the rating is good, and 1.3 and then 7.8
\* where the rating is easy, whatever the prior easeFactor and interval.
C19_FirstIntervals ==
    (/\ Len(outcome) = 2
     /\ outcome[1].repetitions = 0
     /\ outcome[1].quality >= 3
     /\ outcome[2].quality >= 3)
    => (/\ outcome[1].result.interval =
               IF outcome[1].quality = 3 THEN 10000 ELSE 13000
        /\ outcome[2].result.interval =
               IF outcome[2].quality = 3 THEN 60000 ELSE 78000)

\* good then good from the lowest ease factor and the longest interval
C19_Witness ==
    /\ Len(outcome) = 2
    /\ outcome[1].repetitions = 0
    /\ outcome[1].quality = 3
    /\ outcome[2].quality = 3
    /\ outcome[1].easeFactor < 130
    /\ outcome[1].interval = 365 * IntervalScale
    /\ outcome[1].result.interval = 10000
    /\ outcome[2].result.interval = 60000

\* the call of the example: interval 6, easeFactor 2.5, repetitions 2, good
C20_Example(call) ==
    /\ call.quality = 3
    /\ call.repetitions = 2
    /\ call.easeFactor = 250
    /\ call.interval = 6 * IntervalScale

\* C20 (as stated): the example ends with easeFactor 2.4, repetitions 3 and
\* interval 14.4.
C20_AsStated ==
    \A i \in 1..Len(outcome) :
        C20_Example(outcome[i]) =>
            /\ outcome[i].result.easeFactor = 240
            /\ outcome[i].result.repetitions = 3
            /\ outcome[i].result.interval = 144000

\* C20 (amended): the example ends with easeFactor 2.36, repetitions 3 and
\* interval 14.16.
C20_GoodAfterTwoRepetitions ==
    \A i \in 1..Len(outcome) :
        C20_Example(outcome[i]) =>
            /\ outcome[i].result.easeFactor = 236
            /\ outcome[i].result.repetitions = 3
            /\ outcome[i].result.interval = 141600

\* the example has been computed
C20_Witness ==
    /\ Len(outcome) = 1
    /\ C20_Example(outcome[1])
    /\ outcome[1].result.repetitions = 3

\* C21: updateNoteReview(p, again) of a tracked item leaves it with
\* repetitions = 0, interval = 0.0104, nextReviewDate = now + 15 minutes,
\* lastReviewDate = now, isNew = false and its easeFactor; getDueNotes
\* returns it from the instant now + 15 minutes on and not before.
C21_AgainComesBackInFifteenMinutes ==
    [][\A p \in Paths :
          (UpdateNoteReview(p, "again") /\ MapHas(reviewItems, p)) =>
              /\ MapHas(reviewItems', p)
              /\ LET before == MapGet(reviewItems, p)
                     after == MapGet(reviewItems', p)
                 IN  /\ after.repetitions = 0
                     /\ after.interval = 104
                     /\ after.nextReviewDate * MsPerTick
                            = now * MsPerTick + 900000
                     /\ after.lastReviewDate = now
                     /\ ~after.isNew
                     /\ after.easeFactor = before.easeFactor
              /\ \A t \in now..(now + FifteenMinutes) :
                   Contains(getDueNotes(reviewItems', newCardsReviewedToday',
                                        newCardsPerDay, t), p)
                       <=> t >= now + FifteenMinutes]_vars

\* an item rated good and then again is due a quarter of an hour later, with
\* the ease factor the good rating left
C21_Witness ==
    /\ phase = "running"
    /\ \E i \in 1..Len(reviewItems) :
         /\ reviewItems[i].interval = 104
         /\ reviewItems[i].repetitions = 0
         /\ reviewItems[i].easeFactor = 236
         /\ reviewItems[i].lastReviewDate = now - FifteenMinutes
         /\ reviewItems[i].nextReviewDate = now
         /\ Contains(DueNotes, reviewItems[i].path)

\* the step is a rating of a tracked item
Rates(p, rating) ==
    /\ nRatings' # nRatings
    /\ MapHas(reviewItems, p)
    /\ UpdateNoteReview(p, rating)

\* the interval is within [1, 365] days
InIntervalBounds(item) ==
    item.interval >= 1 * IntervalScale /\ item.interval <= 365 * IntervalScale

\* C22: every tracked item has its interval in [1, 365], but for the items
\* whose latest rating was again, whose interval is 0.0104: a rating again
\* leaves 0.0104, a rating hard, good or easy leaves an interval in
\* [1, 365], and nothing but a rating changes the interval of an item.
C22_IntervalBounds ==
    [][/\ \A i \in 1..Len(reviewItems') :
            InIntervalBounds(reviewItems'[i]) \/ reviewItems'[i].interval = 104
       /\ \A p \in Paths, rating \in Ratings :
            Rates(p, rating) =>
                IF rating = "again"
                THEN MapGet(reviewItems', p).interval = 104
                ELSE InIntervalBounds(MapGet(reviewItems', p))
       /\ \A p \in Paths :
            (/\ MapHas(reviewItems, p)
             /\ MapHas(reviewItems', p)
             /\ MapGet(reviewItems', p).interval
                    # MapGet(reviewItems, p).interval)
            => \E rating \in Ratings : Rates(p, rating)]_vars

\* one item has reached the upper bound of 365 days, the latest rating of
\* another one was again
C22_Witness ==
    /\ phase = "running"
    /\ Len(reviewItems) = 2
    /\ \E i, j \in 1..2 :
         /\ reviewItems[i].interval = 365 * IntervalScale
         /\ reviewItems[i].repetitions >= 5
         /\ reviewItems[j].interval = 104
         /\ reviewItems[j].easeFactor < 250
         /\ ~reviewItems[j].isNew

\* C23: trackNote sets nextReviewDate to the instant of the call; a rating
\* hard, good or easy sets lastReviewDate to now and nextReviewDate to
\* now + interval days, the interval being the one the rating left.
C23_NextReviewDate ==
    [][/\ \A p \in Paths :
            (TrackNote(p) /\ ~MapHas(reviewItems, p) /\ MapHas(reviewItems', p))
                => MapGet(reviewItems', p).nextReviewDate = now
       /\ \A p \in Paths, rating \in Ratings \ {"again"} :
            (UpdateNoteReview(p, rating) /\ MapHas(reviewItems, p)) =>
                LET after == MapGet(reviewItems', p)
                IN  /\ after.lastReviewDate = now
                    \* (next - now) ticks of 36 s = interval / 10000 days
                    /\ (after.nextReviewDate - now) * 100
                           = after.interval * (TicksPerDay \div 100)]_vars

\* an item tracked on the second day was rated easy a quarter of an hour
\* later: it is due 1.3 days after the rating
C23_Witness ==
    /\ phase = "running"
    /\ \E i \in 1..Len(reviewItems) :
         /\ reviewItems[i].interval = 13000
         /\ reviewItems[i].lastReviewDate = TicksPerDay + FifteenMinutes
         /\ reviewItems[i].nextReviewDate =
                TicksPerDay + FifteenMinutes + (13 * TicksPerDay) \div 10

\* C24: cleanupDeletedNotes removes exactly the tracked items whose path
\* fails the existence check, keeps every other item as it is, returns the
\* number of items removed, and writes the data file once if that number
\* is positive and not at all if it is 0.
C24_CleanupRemovesMissing ==
    [][\A missing \in SUBSET Paths :
          CleanupDeletedNotesCall(missing) =>
              LET removed == {i \in 1..Len(reviewItems) :
                                 reviewItems[i].path \in missing}
                  count == Cardinality(removed)
              IN  /\ reviewItems' =
                         SelectSeq(reviewItems, LAMBDA it : it.path \notin missing)
                  /\ Len(reviewItems') = Len(reviewItems) - count
                  /\ lastResetDate' = lastResetDate
                  /\ newCardsReviewedToday' = newCardsReviewedToday
                  /\ count = 0 =>
                         /\ outcome' = "0"
                         /\ disk' = disk
                         /\ failuresLeft' = failuresLeft
                  /\ (count > 0 /\ WriteSucceeded) =>
                         /\ outcome' = ToString(count)
                         /\ disk' = Snapshot(reviewItems', lastResetDate,
                                             newCardsReviewedToday)
                  /\ (count > 0 /\ ~WriteSucceeded) =>
                         /\ outcome' = "thrown"
                         /\ failuresLeft' = failuresLeft - 1
                         /\ disk' = disk]_vars

\* a cleanup has removed one of two items: the rated one is kept, the data
\* file holds it alone
C24_Witness ==
    /\ phase = "running"
    /\ outcome = "1"
    /\ Len(reviewItems) = 1
    /\ ~reviewItems[1].isNew
    /\ newCardsReviewedToday > 0
    /\ disk = Snapshot(reviewItems, lastResetDate, newCardsReviewedToday)

\* the indices of the tracked items that satisfy a condition
NotNew == {i \in 1..Len(reviewItems) : ~reviewItems[i].isNew}

\* C25: getStatistics partitions the tracked items: new counts the new items,
\* learning the other items with repetitions = 0 or interval < 1, review the
\* remaining ones, so new + learning + review = total = number of tracked
\* items; due counts every item with nextReviewDate <= now, the new ones
\* included whatever the daily limit.
C25_StatisticsPartition ==
    LET stats == Statistics(reviewItems, now)
    IN  /\ stats.total = Len(reviewItems)
        /\ stats.new = Len(reviewItems) - Cardinality(NotNew)
        /\ stats.learning =
               Cardinality({i \in NotNew :
                   \/ reviewItems[i].repetitions = 0
                   \/ reviewItems[i].interval < 10000})
        /\ stats.review =
               Cardinality({i \in NotNew :
                   /\ reviewItems[i].repetitions > 0
                   /\ reviewItems[i].interval >= 10000})
        /\ stats.new + stats.learning + stats.review = stats.total
        /\ stats.due =
               Cardinality({i \in 1..Len(reviewItems) :
                   reviewItems[i].nextReviewDate <= now})

\* one item in review and one learning item after a rating hard; the daily
\* limit is used up, and the statistics count as due a new item that
\* getDueNotes does not return
C25_Witness ==
    /\ phase = "running"
    /\ newCardsPerDay # Unlimited
    /\ Used >= newCardsPerDay
    /\ LET stats == Statistics(reviewItems, now)
       IN  /\ stats.new = 1
           /\ stats.learning = 1
           /\ stats.due > Len(DueNotes)
           /\ \E i \in NotNew : /\ reviewItems[i].repetitions = 0
                                /\ reviewItems[i].interval = 10000

\* C26: in every state getDailyLimitInfo returns as used the counter left by
\* the lazy reset (0 when the stored date is not today), the configured
\* limit, and remaining = -1 for the limit -1, otherwise
\* remaining = max(0, limit - used), which is never negative.
C26_DailyLimitInfo ==
    phase = "running" =>
        LET info == DailyLimitInfo(Used, newCardsPerDay)
        IN  /\ info.used =
                   IF lastResetDate = Today THEN newCardsReviewedToday ELSE 0
            /\ info.limit = newCardsPerDay
            /\ newCardsPerDay = 0 - 1 => info.remaining = 0 - 1
            /\ newCardsPerDay # 0 - 1 =>
                   /\ info.remaining >= 0
                   /\ \/ info.remaining = newCardsPerDay - info.used
                      \/ /\ info.remaining = 0
                         /\ newCardsPerDay - info.used < 0

\* the limit was lowered below the number of new items reviewed today:
\* nothing remains
C26_Witness ==
    /\ phase = "running"
    /\ newCardsPerDay # Unlimited
    /\ lastResetDate = Today
    /\ newCardsReviewedToday > newCardsPerDay
    /\ DailyLimitInfo(Used, newCardsPerDay).remaining = 0

\* what getFilteredItems returns in the current state
FilteredItems == getFilteredItems(DueNotes, currentFilters, frontmatter)

\* the value the vault resolves for a property of a note
PropValue(p, property) == frontmatter[p].frontmatter[property]

\* the property of a note equals the value (a string, or a number written
\* as the value) or is a list that contains the value as a string
HasValue(p, property, value) ==
    /\ frontmatter[p].kind = "frontmatter"
    /\ LET v == PropValue(p, property)
       IN  \/ v.kind \in {"string", "number"} /\ v.text = value
           \/ /\ v.kind = "list"
              /\ \E i \in 1..Len(v.elements) : v.elements[i] = Str(value)

AllAnd(filters) == \A i \in 1..Len(filters) : filters[i].connector = "AND"

F(property, value, connector) ==
    [property |-> property, value |-> value, connector |-> connector]

\* C27: under a chain whose connectors are all AND, getFilteredItems returns
\* the due items, in their order, whose properties match every filter of
\* the chain: under [(tag,work,AND)] those whose tag is or contains work,
\* under [(tag,work,AND),(status,active,AND)] those for which both hold.
C27_AllAndChain ==
    AllAnd(currentFilters) =>
        /\ FilteredItems =
               SelectSeq(DueNotes, LAMBDA item :
                   \A i \in 1..Len(currentFilters) :
                       HasValue(item.path, currentFilters[i].property,
                                currentFilters[i].value))
        /\ currentFilters = <<F("tag", "work", "AND")>> =>
               \A i \in 1..Len(DueNotes) :
                   Contains(FilteredItems, DueNotes[i].path)
                       <=> HasValue(DueNotes[i].path, "tag", "work")
        /\ currentFilters = <<F("tag", "work", "AND"),
                              F("status", "active", "AND")>> =>
               \A i \in 1..Len(DueNotes) :
                   Contains(FilteredItems, DueNotes[i].path)
                       <=> /\ HasValue(DueNotes[i].path, "tag", "work")
                           /\ HasValue(DueNotes[i].path, "status", "active")

\* Apply Filters under [(tag,work,AND),(status,active,AND)] kept one of two
\* due items: the other one's tag contains work but it has no status
C27_Witness ==
    /\ currentFilters = <<F("tag", "work", "AND"), F("status", "active", "AND")>>
    /\ Len(DueNotes) = 2
    /\ Len(reviewQueue) = 1
    /\ reviewQueue = FilteredItems
    /\ \E i \in 1..2 :
          /\ ~Contains(reviewQueue, DueNotes[i].path)
          /\ HasValue(DueNotes[i].path, "tag", "work")
          /\ PropValue(DueNotes[i].path, "tag").kind = "list"
          /\ PropValue(DueNotes[i].path, "status") = Undefined

\* C28 (as stated): the chain 'tag = work OR tag = personal' selects a due
\* item if and only if its tag is or contains work or personal, and a chain
\* of two filters whose second connector is OR selects an item if and only
\* if one of the two filters matches.
C28_AsStated ==
    /\ currentFilters = <<F("tag", "work", "AND"), F("tag", "personal", "OR")>> =>
           \A i \in 1..Len(DueNotes) :
               Contains(FilteredItems, DueNotes[i].path)
                   <=> \/ HasValue(DueNotes[i].path, "tag", "work")
                       \/ HasValue(DueNotes[i].path, "tag", "personal")
    /\ Len(currentFilters) = 2 /\ currentFilters[2].connector = "OR" =>
           \A i \in 1..Len(DueNotes) :
               Contains(FilteredItems, DueNotes[i].path)
                   <=> \E k \in 1..2 :
                           HasValue(DueNotes[i].path,
                                    currentFilters[k].property,
                                    currentFilters[k].value)

\* C29: under a chain of one filter a due item is selected if and only if
\* its property is a list with an element that is the string filter.value,
\* or a string or a number whose String() is filter.value; never when the
\* property is missing or null.  A due item that is no file or has no
\* frontmatter is never selected by a non-empty chain, and the empty chain
\* selects every due item.
C29_Matches ==
    /\ Len(currentFilters) = 1 =>
           \A i \in 1..Len(DueNotes) :
               LET p == DueNotes[i].path
                   v == PropValue(p, currentFilters[1].property)
                   value == currentFilters[1].value
               IN  frontmatter[p].kind = "frontmatter" =>
                       /\ v.kind = "list" =>
                              (Contains(FilteredItems, p)
                                  <=> \E k \in 1..Len(v.elements) :
                                          /\ v.elements[k].kind = "string"
                                          /\ v.elements[k].text = value)
                       /\ v.kind \in {"string", "number"} =>
                              (Contains(FilteredItems, p) <=> v.text = value)
                       /\ v.kind \in {"undefined", "null"} =>
                              ~Contains(FilteredItems, p)
    /\ Len(currentFilters) > 0 =>
           \A i \in 1..Len(DueNotes) :
               frontmatter[DueNotes[i].path].kind # "frontmatter" =>
                   ~Contains(FilteredItems, DueNotes[i].path)
    /\ Len(currentFilters) = 0 => FilteredItems = DueNotes

\* Apply Filters under [(tag,5,AND)] kept the item whose tag is the number 5
\* and dropped the item whose tag is the list [5]
C29_Witness ==
    /\ currentFilters = <<F("tag", "5", "AND")>>
    /\ Len(DueNotes) = 2
    /\ reviewQueue = FilteredItems
    /\ \E i, j \in 1..2 :
          /\ PropValue(DueNotes[i].path, "tag") = Num("5")
          /\ Contains(reviewQueue, DueNotes[i].path)
          /\ PropValue(DueNotes[j].path, "tag") = List(<<Num("5")>>)
          /\ ~Contains(reviewQueue, DueNotes[j].path)

\* C30: loadData always returns.  Over a data file that cannot be read or
\* parsed it leaves the store empty, the counter at 0 and lastResetDate at
\* today, and attempts one save of that empty store: either the file now
\* holds it, or the write failed, the file is as it was and the store runs
\* on its in-memory state.
C30_LoadDataRecovers ==
    [][LoadDataCall =>
          /\ outcome' = "returned"
          /\ phase' = "running"
          /\ disk \in {Corrupt, Unreadable} =>
                /\ reviewItems' = <<>>
                /\ newCardsReviewedToday' = 0
                /\ lastResetDate' = now \div TicksPerDay
                /\ \/ /\ disk' = Snapshot(<<>>, now \div TicksPerDay, 0)
                      /\ failuresLeft' = failuresLeft
                   \/ /\ disk' = disk
                      /\ failuresLeft' = failuresLeft - 1]_vars

\* loadData returned on the second day over a content that does not parse,
\* with an empty store, and its save failed: the file is still corrupt
C30_Witness ==
    /\ outcome = "returned"
    /\ phase = "running"
    /\ disk = Corrupt
    /\ reviewItems = <<>>
    /\ newCardsReviewedToday = 0
    /\ now \div TicksPerDay = 1
    /\ lastResetDate = 1
    /\ failuresLeft = MaxFailures - 1

\* the running result after the filter at index i when every filter up to
\* it is evaluated, left to right
RECURSIVE Running(_, _, _)
Running(p, filters, i) ==
    LET matches == HasValue(p, filters[i].property, filters[i].value)
    IN  IF i = 1 THEN matches
        ELSE IF filters[i].connector = "AND"
        THEN Running(p, filters, i - 1) /\ matches
        ELSE Running(p, filters, i - 1) \/ matches

\* some filter with connector AND leaves the running result false
Stops(p, filters) ==
    \E i \in 1..Len(filters) :
        filters[i].connector = "AND" /\ ~Running(p, filters, i)

Flipped(filters) ==
    [filters EXCEPT ![1].connector =
        IF filters[1].connector = "AND" THEN "OR" ELSE "AND"]

\* C33 (as stated): changing only the connector of the first entry of the
\* chain does not change which due items are selected.
C33_AsStated ==
    currentFilters # <<>> =>
        getFilteredItems(DueNotes, Flipped(currentFilters), frontmatter)
            = FilteredItems

\* what loadData makes, today, of the file a successful saveData writes in
\* the current state
SavedNow == Snapshot(reviewItems, lastResetDate, newCardsReviewedToday)

ReloadedItems == LoadItems(SavedNow.items, 1, <<>>)

ReloadedDaily ==
    checkDailyReset(SavedNow.lastResetDate, SavedNow.newCardsReviewedToday,
                    Today)

\* C40 (as stated): loading, on the day of the save, the snapshot a
\* successful saveData writes restores the same items with all their
\* fields, the same counter and the same lastResetDate.
C40_AsStated ==
    phase = "running" =>
        /\ ReloadedItems = reviewItems
        /\ ReloadedDaily.newCardsReviewedToday = newCardsReviewedToday
        /\ ReloadedDaily.lastResetDate = lastResetDate

\* C40 (amended): the items come back in the same order with all their
\* fields; the counter and lastResetDate come back as saved when the saved
\* lastResetDate is the day of the load, and otherwise as 0 and that day,
\* which is what the next lazy reset would have left in memory.
C40_RoundTrip ==
    phase = "running" =>
        /\ ReloadedItems = reviewItems
        /\ lastResetDate = Today =>
               /\ ReloadedDaily.newCardsReviewedToday = newCardsReviewedToday
               /\ ReloadedDaily.lastResetDate = lastResetDate
        /\ lastResetDate # Today =>
               /\ ReloadedDaily.newCardsReviewedToday = 0
               /\ ReloadedDaily.lastResetDate = Today

\* the file holds the snapshot of a store with a reviewed item and a new
\* one, saved on the second day with the counter of the first day
C40_Witness ==
    /\ phase = "running"
    /\ disk = SavedNow
    /\ Today = 1
    /\ lastResetDate = 0
    /\ newCardsReviewedToday > 0
    /\ \E i, j \in 1..Len(reviewItems) :
          /\ reviewItems[i].isNew
          /\ ~reviewItems[j].isNew
          /\ reviewItems[j].lastReviewDate # NoDate

\* C38: every tracked new item has interval 1, easeFactor 2.5, repetitions 0
\* and no lastReviewDate; every tracked item that is not new has a
\* lastReviewDate and a nextReviewDate after it.
C38_ItemInvariants ==
    \A i \in 1..Len(reviewItems) :
        LET item == reviewItems[i]
        IN  /\ item.isNew =>
                /\ item.interval = 10000
                /\ item.easeFactor = 250
                /\ item.repetitions = 0
                /\ item.lastReviewDate = NoDate
            /\ ~item.isNew =>
                /\ item.lastReviewDate # NoDate
                /\ item.nextReviewDate > item.lastReviewDate

\* a new item next to an item rated again a day after it was tracked: its
\* next review is a quarter of an hour after its last one
C38_Witness ==
    /\ phase = "running"
    /\ \E i, j \in 1..Len(reviewItems) :
          /\ reviewItems[i].isNew
          /\ reviewItems[i].nextReviewDate = 0
          /\ ~reviewItems[j].isNew
          /\ reviewItems[j].lastReviewDate = TicksPerDay
          /\ reviewItems[j].nextReviewDate = TicksPerDay + FifteenMinutes

\* C34 (as stated): after the rename handler ran for a tracked document,
\* the old path is not tracked and the new path is tracked.
C34_AsStated ==
    outcome.wasTracked =>
        /\ ~MapHas(reviewItems, outcome.oldPath)
        /\ MapHas(reviewItems, outcome.newPath)

\* what the store holds once the lazy check of the day has run
AfterLazyCheck(memory) ==
    LET daily == checkDailyReset(memory.lastResetDate,
                                 memory.newCardsReviewedToday, Today)
    IN  Memory(memory.reviewItems, daily.lastResetDate,
               daily.newCardsReviewedToday)

\* the store a restart would load from the data file
Reloaded ==
    AfterLazyCheck(Memory(LoadItems(disk.items, 1, <<>>), disk.lastResetDate,
                          disk.newCardsReviewedToday))

\* the store a restart would load is the store in memory, or that store
\* before the latest call that changed it
LosesAtMostOne ==
    \/ Reloaded = AfterLazyCheck(Memory(reviewItems, lastResetDate,
                                        newCardsReviewedToday))
    \/ Reloaded = AfterLazyCheck(outcome.before)

TrackedNew(p) == MapHas(reviewItems, p) /\ MapGet(reviewItems, p).isNew

\* C39: with a limit of -1 or at least 1, while the days keep passing and the
\* new items that getDueNotes returns are rated in the end, every tracked new
\* item is in the end returned by getDueNotes, unless it is untracked first.
C39_NoNewItemStarves ==
    \A p \in Paths :
        TrackedNew(p) ~> (Returned(p) \/ ~MapHas(reviewItems, p))

\* C39 witness: the counter of an earlier day had reached the limit, which
\* kept the new item b.md behind a.md out; a day has passed, a.md is rated and
\* getDueNotes returns b.md.
C39_Witness ==
    /\ newCardsPerDay # Unlimited
    /\ lastResetDate = PastDay
    /\ newCardsReviewedToday >= newCardsPerDay
    /\ MapHas(reviewItems, "a.md")
    /\ ~MapGet(reviewItems, "a.md").isNew
    /\ TrackedNew("b.md")
    /\ Returned("b.md")

\* C35 as stated: a path for which a trackNote call has returned without an
\* error, with no untrack or cleanup of the path since that call began, is
\* tracked, whatever the overlapping trackNote calls do.
C35_AsStated == \A p \in outcome.completed : MapHas(reviewItems, p)

(***************************************************************************)
(* The review session of the view.  reviewQueue holds items whose path is  *)
(* all the session reads; currentReviewIndex counts from 0.  handleRating  *)
(* is the two steps its await of updateNoteReview makes of it: the call    *)
(* reads the current item and changes the store, then waits for the write  *)
(* in pending; when the write settles the call goes on, or throws and      *)
(* leaves the view as it is.  Every handler ends with renderView, which    *)
(* is part of its action.                                                  *)
(***************************************************************************)
FilePresent(p) == frontmatter[p] # NotAFile

RECURSIVE RenderView(_, _, _)
\* renderView: the question and answer screens end the session on an
\* exhausted queue and step over an item whose file is gone
RenderView(state, queue, index) ==
    IF state \notin {"question", "answer"}
    THEN [currentState |-> state, currentReviewIndex |-> index]
    ELSE IF Len(queue) = 0 \/ index >= Len(queue)
    THEN [currentState |-> "empty", currentReviewIndex |-> index]
    ELSE IF ~FilePresent(queue[index + 1].path)
    THEN RenderView(state, queue, index + 1)
    ELSE [currentState |-> state, currentReviewIndex |-> index]

\* a file of the vault is deleted
DeleteFile(p) ==
    /\ phase = "running"
    /\ FilePresent(p)
    /\ frontmatter' = [frontmatter EXCEPT ![p] = NotAFile]
    /\ UNCHANGED <<reviewItems, lastResetDate, newCardsReviewedToday,
                   newCardsPerDay, now, disk, phase, nRatings, failuresLeft,
                   currentFilters, reviewQueue, currentState,
                   currentReviewIndex, pending>>

\* the Start Review button of the filter screen
StartReview ==
    /\ phase = "running"
    /\ currentState = "filter"
    /\ LET daily == IF Len(reviewQueue) = 0
                    THEN checkDailyReset(lastResetDate, newCardsReviewedToday,
                                         Today)
                    ELSE DailyData(lastResetDate, newCardsReviewedToday)
           queue == IF Len(reviewQueue) = 0
                    THEN getDueNotes(reviewItems, daily.newCardsReviewedToday,
                                     newCardsPerDay, now)
                    ELSE reviewQueue
           view == IF Len(queue) = 0
                   THEN RenderView("empty", queue, currentReviewIndex)
                   ELSE RenderView("question", queue, 0)
       IN  /\ lastResetDate' = daily.lastResetDate
           /\ newCardsReviewedToday' = daily.newCardsReviewedToday
           /\ reviewQueue' = queue
           /\ currentState' = view.currentState
           /\ currentReviewIndex' = view.currentReviewIndex
    /\ UNCHANGED <<reviewItems, newCardsPerDay, now, disk, phase, nRatings,
                   failuresLeft, currentFilters, frontmatter, pending>>

\* the Show Answer button, or the space bar on the question screen
ShowAnswer ==
    /\ phase = "running"
    /\ currentState = "question"
    /\ LET view == RenderView("answer", reviewQueue, currentReviewIndex)
       IN  /\ currentState' = view.currentState
           /\ currentReviewIndex' = view.currentReviewIndex
    /\ UNCHANGED <<reviewItems, lastResetDate, newCardsReviewedToday,
                   newCardsPerDay, now, disk, phase, nRatings, failuresLeft,
                   currentFilters, reviewQueue, frontmatter, pending>>

\* the Back to Filters button of the empty screen
BackToFilters ==
    /\ phase = "running"
    /\ currentState = "empty"
    /\ currentState' = "filter"
    /\ currentFilters' = <<>>
    /\ UNCHANGED <<reviewItems, lastResetDate, newCardsReviewedToday,
                   newCardsPerDay, now, disk, phase, nRatings, failuresLeft,
                   reviewQueue, frontmatter, currentReviewIndex, pending>>

\* if (rating === 'again') reviewQueue.push({...currentItem})
RequeuedAlways(queue, currentItem, rating) == Append(queue, currentItem)

Requeued(queue, currentItem, rating) ==
    IF rating = "again" THEN Append(queue, currentItem) ELSE queue

\* the due notes that the queue does not hold
remainingDueNotes(allDueNotes, queue) ==
    SelectSeq(allDueNotes,
              LAMBDA note : \A j \in 1..Len(queue) : queue[j].path # note.path)

\* handleRating up to its await: reads the current item and runs
\* updateNoteReview up to the write
HandleRatingBegin(rating) ==
    /\ phase = "running"
    /\ currentState = "answer"
    /\ currentReviewIndex < Len(reviewQueue)
    /\ Len(pending) < MaxPending
    /\ LET currentItem == reviewQueue[currentReviewIndex + 1]
       IN  /\ MapHas(reviewItems, currentItem.path)
           /\ LET item == MapGet(reviewItems, currentItem.path)
                  daily == Counted(item.isNew, lastResetDate,
                                   newCardsReviewedToday, Today)
                  items == MapSet(reviewItems, currentItem.path,
                                  Reviewed(item, rating, now))
              IN  /\ reviewItems' = items
                  /\ lastResetDate' = daily.lastResetDate
                  /\ newCardsReviewedToday' = daily.newCardsReviewedToday
                  /\ pending' = Append(pending,
                         [path |-> currentItem.path,
                          rating |-> rating,
                          data |-> Snapshot(items, daily.lastResetDate,
                                            daily.newCardsReviewedToday)])
    /\ UNCHANGED <<newCardsPerDay, now, disk, phase, nRatings, failuresLeft,
                   currentFilters, reviewQueue, frontmatter, currentState,
                   currentReviewIndex>>

\* handleRating from its await on: the write of the call pending[i] settles
HandleRatingEnd(i, ok) ==
    /\ i \in 1..Len(pending)
    /\ ok \in WriteOutcomes
    /\ pending' = RemoveAt(pending, i)
    /\ failuresLeft' = Failed(ok)
    /\ IF ~ok
       THEN UNCHANGED <<lastResetDate, newCardsReviewedToday, disk,
                        reviewQueue, currentState, currentReviewIndex>>
       ELSE LET currentItem == MapGet(reviewItems, pending[i].path)
                queue == Requeued(reviewQueue, currentItem, pending[i].rating)
                index == currentReviewIndex + 1
                daily == checkDailyReset(lastResetDate, newCardsReviewedToday,
                                         Today)
                allDueNotes == getDueNotes(reviewItems,
                                   daily.newCardsReviewedToday,
                                   newCardsPerDay, now)
            IN  /\ disk' = pending[i].data
                /\ IF index >= Len(queue)
                   THEN /\ lastResetDate' = daily.lastResetDate
                        /\ newCardsReviewedToday' =
                               daily.newCardsReviewedToday
                        /\ reviewQueue' = <<>>
                        /\ currentReviewIndex' = index
                        /\ currentState' =
                               IF Len(remainingDueNotes(allDueNotes, queue)) > 0
                               THEN "filter" ELSE "empty"
                   ELSE LET view == RenderView("question", queue, index)
                        IN  /\ reviewQueue' = queue
                            /\ currentState' = view.currentState
                            /\ currentReviewIndex' = view.currentReviewIndex
                            /\ UNCHANGED <<lastResetDate,
                                           newCardsReviewedToday>>
    /\ UNCHANGED <<reviewItems, newCardsPerDay, now, phase, nRatings,
                   currentFilters, frontmatter>>

(***************************************************************************)
(* SpecSession and SpecReview: one review session after another, with no   *)
(* clock step; the files of both notes exist at first and may be deleted.  *)
(* outcome is the history of the latest session: k, the length of the      *)
(* queue it started with; present, whether the files of the queue have all *)
(* been there since; rated, the positions at which handleRating called     *)
(* updateNoteReview; again, how many of these ratings were again; saved    *)
(* and savedAgain, the same counts for the ratings whose write succeeded;  *)
(* sessions, how many sessions were started, at most MaxSessions.  In      *)
(* SpecSession a key press may start handleRating while an earlier call    *)
(* waits, and no write fails; in SpecReview the calls do not overlap and   *)
(* MaxFailures writes may fail.                                            *)
(***************************************************************************)
NoSession ==
    [started |-> FALSE, sessions |-> 0, k |-> 0, present |-> FALSE,
     rated |-> <<>>, again |-> 0, saved |-> 0, savedAgain |-> 0]

InitSession ==
    /\ reviewItems = <<>>
    /\ lastResetDate = EmptyDate
    /\ newCardsReviewedToday = 0
    /\ newCardsPerDay = DefaultNewCardsPerDay
    /\ now = 0
    /\ disk = NoFile
    /\ phase = "constructed"
    /\ readDay = NoDay
    /\ nRatings = 0
    /\ failuresLeft = 0
    /\ outcome = NoSession
    /\ currentFilters = <<>>
    /\ reviewQueue = <<>>
    /\ frontmatter = [p \in Paths |-> NoFrontmatter]
    /\ SessionInit

InitReview ==
    /\ reviewItems = <<>>
    /\ lastResetDate = EmptyDate
    /\ newCardsReviewedToday = 0
    /\ newCardsPerDay = DefaultNewCardsPerDay
    /\ now = 0
    /\ disk = NoFile
    /\ phase = "constructed"
    /\ readDay = NoDay
    /\ nRatings = 0
    /\ failuresLeft = MaxFailures
    /\ outcome = NoSession
    /\ currentFilters = <<>>
    /\ reviewQueue = <<>>
    /\ frontmatter = [p \in Paths |-> NoFrontmatter]
    /\ SessionInit

StoreStep ==
    /\ \/ LoadData
       \/ \E p \in Paths : FilePresent(p) /\ TrackNote(p)
    /\ UNCHANGED <<readDay, outcome>>
    /\ UNCHANGED viewVars

DeleteFileStep ==
    \E p \in Paths :
        /\ DeleteFile(p)
        /\ outcome' = [outcome EXCEPT !.present = FALSE]
        /\ UNCHANGED readDay

StartReviewStep ==
    /\ outcome.sessions < MaxSessions
    /\ StartReview
    /\ outcome' =
           [started |-> TRUE, sessions |-> outcome.sessions + 1,
            k |-> Len(reviewQueue'),
            present |-> \A j \in 1..Len(reviewQueue') :
                            FilePresent(reviewQueue'[j].path),
            rated |-> <<>>, again |-> 0, saved |-> 0, savedAgain |-> 0]
    /\ UNCHANGED readDay

ShowAnswerStep == ShowAnswer /\ UNCHANGED <<readDay, outcome>>

BackToFiltersStep == BackToFilters /\ UNCHANGED <<readDay, outcome>>

HandleRatingBeginStep ==
    \E rating \in Ratings :
        /\ rating = "again" => outcome.again < MaxAgain
        /\ HandleRatingBegin(rating)
        /\ outcome' =
               [outcome EXCEPT
                   !.rated = Append(@, currentReviewIndex),
                   !.again = IF rating = "again" THEN @ + 1 ELSE @]
        /\ UNCHANGED readDay

HandleRatingEndStep ==
    \E i \in 1..MaxPending, ok \in BOOLEAN :
        /\ HandleRatingEnd(i, ok)
        /\ outcome' =
               IF ~ok THEN outcome
               ELSE [outcome EXCEPT
                        !.saved = @ + 1,
                        !.savedAgain = IF pending[i].rating = "again"
                                       THEN @ + 1 ELSE @]
        /\ UNCHANGED readDay

NextSession ==
    \/ StoreStep
    \/ DeleteFileStep
    \/ StartReviewStep
    \/ ShowAnswerStep
    \/ BackToFiltersStep
    \/ HandleRatingBeginStep
    \/ HandleRatingEndStep

SpecSession == InitSession /\ [][NextSession]_vars

\* the user waits for a rating to be handled before giving the next one
HandleRatingAloneStep == pending = <<>> /\ HandleRatingBeginStep

NextReview ==
    \/ StoreStep
    \/ DeleteFileStep
    \/ StartReviewStep
    \/ ShowAnswerStep
    \/ BackToFiltersStep
    \/ HandleRatingAloneStep
    \/ HandleRatingEndStep

\* the user goes on with the session, and every write settles
SpecReview ==
    /\ InitReview
    /\ [][NextReview]_vars
    /\ WF_vars(ShowAnswerStep)
    /\ WF_vars(HandleRatingAloneStep)
    /\ WF_vars(HandleRatingEndStep)

\* C36 as stated: no two applied ratings of a session are at the same
\* position of the queue, also when handleRating starts again while an
\* earlier call waits for updateNoteReview.
C36_AsStated ==
    \A i, j \in 1..Len(outcome.rated) :
        i # j => outcome.rated[i] # outcome.rated[j]

\* a session is under way
Active == outcome.started /\ currentState \in {"question", "answer"}

\* the session is over
Ended == currentState \in {"filter", "empty"} /\ reviewQueue = <<>>

SavedRatings ==
    (outcome.started /\ outcome.present)
        => IF Active
           THEN /\ currentReviewIndex = outcome.saved
                /\ Len(reviewQueue) = outcome.k + outcome.savedAgain
                /\ outcome.saved < outcome.k + outcome.savedAgain
           ELSE /\ outcome.saved = outcome.k + outcome.savedAgain
                /\ reviewQueue = <<>>

====
